---- MODULE Spec2Model ----
(***************************************************************************)
(* Model of the cart and order-conversion service of artisan-market        *)
(* (src/src/services/shopping_cart_service.py) over its two stores: the    *)
(* relational store (products, orders, order_items) and the key-value      *)
(* store (one cart row per user, with a TTL).                              *)
(*                                                                         *)
(* Every request handler is a process.  A handler's code is cut at its     *)
(* store round trips: one action is one round trip together with the local *)
(* computation around it, so that two handlers interleave exactly where    *)
(* the code lets them.  The relational transaction of                      *)
(* convert_cart_to_order (get_cursor: all statements, then commit) is one  *)
(* action: its inserts and its relative updates become visible at commit.  *)
(*                                                                         *)
(* Abstractions: a cart's created_at / updated_at strings and the          *)
(* shipping address are not stored in the model (no handler branches on    *)
(* them); the cart key "cart:<user>" is the user id.                       *)
(*                                                                         *)
(* The retrieval services (product_search_service.py, search_service.py,   *)
(* recommendation_service.py) share one cache-aside shape: look the key    *)
(* up, return what was found if it is truthy, else compute from the        *)
(* backing store, write the result back and return it.  They are modelled  *)
(* by one handler whose key, time to live and failure handling depend on   *)
(* the operation.  What the backing stores answer is one version of the    *)
(* data that the environment changes.                                      *)
(***************************************************************************)
EXTENDS Integers, FiniteSets, Sequences, TLC

\* ------------------------------------------------------------------ bounds
MaxQty == 2
InitStock == 2
MaxNow == 1
MaxCalls == 2
MaxCount == 2

\* ------------------------------------------------------- program constants
cart_ttl == 86400

\* ------------------------------------------------------------ the universe
Procs == {"w1", "w2"}
SeqProc == "w1"
Users == {"u1", "u2"}
ProductIds == {"A", "B"}
UnknownId == "X"
Quantities == (-1) .. MaxQty
ValidQuantities == 1 .. MaxQty
OldPrice == [p \in ProductIds |-> IF p = "A" THEN 10 ELSE 5]
NewPrice == [p \in ProductIds |-> IF p = "A" THEN 12 ELSE 7]
OldName == [p \in ProductIds |-> IF p = "A" THEN "Scarf" ELSE "Mug"]
NewName == [p \in ProductIds |-> IF p = "A" THEN "Red Scarf" ELSE "Blue Mug"]

None == <<>>
Some(x) == <<x>>
Val(o) == o[1]

VARIABLES
  stock,        \* products.stock, by product id
  price,        \* products.price
  name,         \* products.name
  orders,       \* rows of table orders
  order_items,  \* rows of table order_items
  carts,        \* the cart rows of the key-value store: user -> [items, ttl]
  now,          \* the wall clock, in seconds
  local,        \* each handler's control point, arguments and local variables
  calls,        \* number of handler invocations so far (bounded by MaxCalls)
  effect,       \* history: what each handler's present call has changed in the stores
  made,         \* history: per user, the ids of the orders committed from the present cart row
  cache,        \* the cache entries of the key-value store: key -> [items, ttl]
  data,         \* the version of the data the backing stores answer from
  cache_hit_count,   \* ProductSearchService.cache_hit_count
  cache_miss_count,  \* ProductSearchService.cache_miss_count
  seed,         \* each handler's server process: the seed of its string hash
  req,          \* each retrieval handler's control point, arguments and local variables
  tables        \* the rows the retrieval queries read: products, embeddings, purchases

CartVars == <<stock, price, name, orders, order_items, carts, local, effect, made>>

RetrievalVars == <<cache, data, cache_hit_count, cache_miss_count, seed, req, tables>>

vars == <<CartVars, now, calls, RetrievalVars>>

\* ----------------------------------------------------------- handler state
NoResult ==
  [success |-> FALSE, message |-> "-", err |-> "-", order_id |-> None, summary |-> None]

Idle ==
  [pc |-> "idle", op |-> "-", user_id |-> "-", product_id |-> "-", quantity |-> 0,
   product_info |-> None, current_cart |-> None, todo |-> {}, order_id |-> None,
   result |-> NoResult]

\* what is left of a handler's frame once it has returned: its arguments and its
\* result (with the cart and the order id the result carries)
Returned(l, res) ==
  [Idle EXCEPT !.pc = "done", !.op = l.op, !.user_id = l.user_id, !.product_id = l.product_id,
               !.quantity = l.quantity, !.current_cart = l.current_cart,
               !.result = res]

\* a failure result carries a message and no cart; err is the exception the handler logged
Fail(l, msg, err) ==
  Returned([l EXCEPT !.current_cart = None], [NoResult EXCEPT !.message = msg, !.err = err])

\* a float amount is held in thousandths; round(x, 2) gives hundredths, a tie
\* going to the even hundredth
round2(x) ==
  LET q == x \div 10
      r == x % 10
  IN IF r > 5 \/ (r = 5 /\ q % 2 = 1) THEN q + 1 ELSE q

RECURSIVE TotalItems(_)
TotalItems(items) ==
  IF DOMAIN items = {} THEN 0
  ELSE LET k == CHOOSE x \in DOMAIN items : TRUE
       IN items[k].quantity + TotalItems([x \in DOMAIN items \ {k} |-> items[x]])

RECURSIVE TotalPrice(_)
TotalPrice(items) ==
  IF DOMAIN items = {} THEN 0
  ELSE LET k == CHOOSE x \in DOMAIN items : TRUE
       IN items[k].quantity * (items[k].price * 1000)
            + TotalPrice([x \in DOMAIN items \ {k} |-> items[x]])

\* (mutant) the prices are summed, whatever the quantities
UnitPriceTotals(items) ==
  [total_items |-> TotalItems(items),
   total_price |-> round2(TotalPrice([x \in DOMAIN items |-> [items[x] EXCEPT !.quantity = 1]])),
   item_count |-> Cardinality(DOMAIN items)]

\* total_price is in hundredths
_calculate_cart_totals(items) ==
  [total_items |-> TotalItems(items),
   total_price |-> round2(TotalPrice(items)),
   item_count |-> Cardinality(DOMAIN items)]

\* the summary clear_cart returns is written out in its return statement
ClearedSummary == [total_items |-> 0, total_price |-> 0]

\* a success result carries the summary of the cart it returns
Succeed(l, msg) ==
  Returned(l, [success |-> TRUE, message |-> msg, err |-> "none", order_id |-> l.order_id,
               summary |-> IF l.current_cart = None THEN None
                           ELSE Some(_calculate_cart_totals(Val(l.current_cart)))])

Invoke(p, opname, u, pid, q) ==
  [Idle EXCEPT !.op = opname, !.user_id = u, !.product_id = pid, !.quantity = q]

\* --------------------------------------------------------- key-value store
EmptyStore == [k \in {} |-> k]
EmptyItems == [k \in {} |-> k]

get_json(store, key) == IF key \in DOMAIN store THEN Some(store[key].items) ELSE None

\* (mutant) a row that exists keeps the time it has left
set_jsonKeepingTtl(store, key, items, ttl) ==
  [k \in DOMAIN store \cup {key} |->
     IF k = key
     THEN [items |-> items, ttl |-> IF key \in DOMAIN store THEN store[key].ttl ELSE ttl]
     ELSE store[k]]

\* SETEX: the row is stored with ttl seconds to live
set_json(store, key, items, ttl) ==
  [k \in DOMAIN store \cup {key} |-> IF k = key THEN [items |-> items, ttl |-> ttl] ELSE store[k]]

redis_delete(store, key) == [k \in DOMAIN store \ {key} |-> store[k]]

\* a python dict is truthy when it is not empty; the stored cart always holds its
\* "items" key, so a cart that was read is truthy whatever its items are
Lines(items) == DOMAIN items

WithoutLine(items, pid) == [k \in DOMAIN items \ {pid} |-> items[k]]

WithLine(items, pid, line) ==
  [k \in DOMAIN items \cup {pid} |-> IF k = pid THEN line ELSE items[k]]

\* -------------------------------------------------------- relational store
_get_product_info(pid, ok) ==
  IF ok /\ pid \in ProductIds
  THEN Some([stock |-> stock[pid], price |-> price[pid], name |-> name[pid]])
  ELSE None

OrderId(u, t) == <<u, t>>

OrderItemId(oid, pid) == <<oid, pid>>

\* a primary key accepts an INSERT only when no row holds the id
PrimaryKeyFree(rows, id) == \A r \in rows : r.id # id

\* (mutant) only the lines of more than one unit get their order item
OrderItemRowsOfLargeLines(oid, items) ==
  {[id |-> OrderItemId(oid, pid), order_id |-> oid, product_id |-> pid,
    quantity |-> items[pid].quantity] : pid \in {x \in Lines(items) : items[x].quantity > 1}}

OrderItemRows(oid, items) ==
  {[id |-> OrderItemId(oid, pid), order_id |-> oid, product_id |-> pid,
    quantity |-> items[pid].quantity] : pid \in Lines(items)}

\* (mutant) one unit per line, whatever the line's quantity
DecrementStockByOne(st, items) ==
  [pid \in DOMAIN st |-> IF pid \in Lines(items) THEN st[pid] - 1 ELSE st[pid]]

\* UPDATE products SET stock = stock - quantity, once per cart line
DecrementStock(st, items) ==
  [pid \in DOMAIN st |-> IF pid \in Lines(items) THEN st[pid] - items[pid].quantity ELSE st[pid]]

\* ---------------------------------------------------------------- history
NoEffect ==
  [orders |-> {}, order_items |-> {}, stock |-> [pid \in ProductIds |-> 0], cart |-> "kept"]

\* one step of handler p, serving user u, is added to the effects of its call
\* (base: the effects so far); an order committed from u's cart row is noted
\* until the row's contents change
Track(p, u, base) ==
  /\ effect' = [effect EXCEPT ![p] =
       [orders |-> base.orders \cup (orders' \ orders),
        order_items |-> base.order_items \cup (order_items' \ order_items),
        stock |-> [pid \in ProductIds |-> base.stock[pid] + stock[pid] - stock'[pid]],
        cart |-> IF get_json(carts', u) = get_json(carts, u) THEN base.cart
                 ELSE IF u \in DOMAIN carts' THEN "set" ELSE "deleted"]]
  /\ made' = [made EXCEPT ![u] =
       IF get_json(carts', u) # get_json(carts, u) THEN {}
       ELSE @ \cup {o.id : o \in orders' \ orders}]

\* ------------------------------------------------------------------- Init
\* The service starts against stores that earlier sessions have used: a user's
\* cart is absent or is one that add_item calls on the initial catalog leave.
SnapshotLine(pid, q) == [quantity |-> q, price |-> OldPrice[pid], name |-> OldName[pid]]

InitialItems ==
  {EmptyItems,
   [pid \in {"A"} |-> SnapshotLine(pid, InitStock)],
   [pid \in ProductIds |-> SnapshotLine(pid, 1)]}

InitialStores ==
  {[u \in {v \in Users : c[v] # EmptyItems} |-> [items |-> c[u], ttl |-> cart_ttl]] :
     c \in [Users -> InitialItems]}

\* no retrieval call has been made
ReqIdle ==
  [pc |-> "idle", op |-> "-", subject |-> "-", limit |-> 0, weight |-> 0,
   cache_key |-> None, computed |-> None, result |-> None, rate |-> None,
   cache_hit |-> FALSE, raised |-> FALSE, queried |-> FALSE, wrote |-> FALSE,
   filters |-> <<>>, found |-> None, counted |-> FALSE,
   user_id |-> None, product_id |-> None, success |-> FALSE, args |-> None]

\* no product, embedding or purchase
NoTables == [products |-> {}, categories |-> {}, embeddings |-> {}, purchases |-> {}]

RetrievalQuiet ==
  /\ tables = NoTables
  /\ cache = EmptyStore
  /\ data = "none"
  /\ cache_hit_count = [p \in Procs |-> 0]
  /\ cache_miss_count = [p \in Procs |-> 0]
  /\ seed = [p \in Procs |-> 1]
  /\ req = [p \in Procs |-> ReqIdle]

Init ==
  /\ stock = [p \in ProductIds |-> InitStock]
  /\ price = OldPrice
  /\ name = OldName
  /\ orders = {}
  /\ order_items = {}
  /\ carts \in InitialStores
  /\ now = 0
  /\ local = [p \in Procs |-> Idle]
  /\ calls = 0
  /\ effect = [p \in Procs |-> NoEffect]
  /\ made = [u \in Users |-> {}]
  /\ RetrievalQuiet

Relational == <<stock, price, name, orders, order_items>>

CanInvoke(p) == local[p].pc \in {"idle", "done"} /\ calls < MaxCalls

\* ------------------------------------------------------------- add_item
\* the quantity check, the product lookup and the stock check
add_item(p, u, pid, q, ok) ==
  /\ CanInvoke(p)
  /\ calls' = calls + 1
  /\ LET l == Invoke(p, "add_item", u, pid, q)
         info == _get_product_info(pid, ok)
     IN local' = [local EXCEPT ![p] =
          IF q <= 0 THEN Fail(l, "Quantity must be positive", "none")
          ELSE IF info = None THEN Fail(l, "Product not found", "none")
          ELSE IF Val(info).stock < q THEN Fail(l, "Insufficient stock", "none")
          ELSE [l EXCEPT !.pc = "add_get", !.product_info = info]]
  /\ UNCHANGED <<Relational, carts, now>>
  /\ Track(p, u, NoEffect)
  /\ UNCHANGED RetrievalVars

\* (mutant) the line's quantity is replaced, not added to
UpsertLineReplacing(cart, pid, q, info) ==
  WithLine(cart, pid, [quantity |-> q, price |-> info.price, name |-> info.name])

\* the line is added, or its quantity grows and its price and name stay
UpsertLine(cart, pid, q, info) ==
  IF pid \in Lines(cart)
  THEN [cart EXCEPT ![pid].quantity = @ + q]
  ELSE WithLine(cart, pid, [quantity |-> q, price |-> info.price, name |-> info.name])

\* read the cart, add or update the line
add_item_get(p, ok) ==
  /\ local[p].pc = "add_get"
  /\ LET l == local[p]
         info == Val(l.product_info)
         read == get_json(carts, l.user_id)
         cart == IF read = None THEN EmptyItems ELSE Val(read)
     IN local' = [local EXCEPT ![p] =
          IF ~ok THEN Fail(l, "Failed to add item to cart", "RedisError")
          ELSE IF /\ l.product_id \in Lines(cart)
                  /\ cart[l.product_id].quantity + l.quantity > info.stock
          THEN Fail(l, "Total would exceed stock", "none")
          ELSE [l EXCEPT !.pc = "add_set",
                         !.current_cart = Some(UpsertLine(cart, l.product_id, l.quantity, info))]]
  /\ UNCHANGED <<Relational, carts, now, calls>>
  /\ Track(p, local[p].user_id, effect[p])
  /\ UNCHANGED RetrievalVars

\* save the cart with the full TTL
add_item_set(p, ok) ==
  /\ local[p].pc = "add_set"
  /\ LET l == local[p]
     IN IF ok
        THEN /\ carts' = set_json(carts, l.user_id, Val(l.current_cart), cart_ttl)
             /\ local' = [local EXCEPT ![p] = Succeed(l, "Item added to cart")]
        ELSE /\ local' = [local EXCEPT ![p] = Fail(l, "Failed to add item to cart", "RedisError")]
             /\ UNCHANGED carts
  /\ UNCHANGED <<Relational, now, calls>>
  /\ Track(p, local[p].user_id, effect[p])
  /\ UNCHANGED RetrievalVars

\* ----------------------------------------------------------- remove_item
\* read the cart and look for the line; l is the frame of the caller
RemoveGet(l, ok) ==
  LET read == get_json(carts, l.user_id)
  IN IF ~ok THEN Fail(l, "Failed to remove item from cart", "RedisError")
     ELSE IF read = None \/ l.product_id \notin Lines(Val(read))
     THEN Fail(l, "Item not found in cart", "none")
     ELSE [l EXCEPT !.pc = "rm_set", !.current_cart = read]

remove_item(p, u, pid, ok) ==
  /\ CanInvoke(p)
  /\ calls' = calls + 1
  /\ local' = [local EXCEPT ![p] = RemoveGet(Invoke(p, "remove_item", u, pid, 0), ok)]
  /\ UNCHANGED <<Relational, carts, now>>
  /\ Track(p, u, NoEffect)
  /\ UNCHANGED RetrievalVars

\* (mutant) the cart is saved even when no line is left
SaveAlways(store, key, rest) == set_json(store, key, rest, cart_ttl)

\* save the cart, or delete the row when no line is left
SaveOrDelete(store, key, rest) ==
  IF Lines(rest) # {} THEN set_json(store, key, rest, cart_ttl) ELSE redis_delete(store, key)

\* delete the line, then save or delete
remove_item_set(p, ok) ==
  /\ local[p].pc = "rm_set"
  /\ LET l == local[p]
         rest == WithoutLine(Val(l.current_cart), l.product_id)
     IN IF ok
        THEN /\ carts' = SaveOrDelete(carts, l.user_id, rest)
             /\ local' = [local EXCEPT ![p] =
                  Succeed([l EXCEPT !.current_cart = Some(rest)], "Item removed from cart")]
        ELSE /\ local' = [local EXCEPT ![p] = Fail(l, "Failed to remove item from cart", "RedisError")]
             /\ UNCHANGED carts
  /\ UNCHANGED <<Relational, now, calls>>
  /\ Track(p, local[p].user_id, effect[p])
  /\ UNCHANGED RetrievalVars

\* --------------------------------------------------- update_item_quantity
update_item_quantity(p, u, pid, q, ok) ==
  /\ CanInvoke(p)
  /\ calls' = calls + 1
  /\ LET l == Invoke(p, "update_item_quantity", u, pid, q)
         info == _get_product_info(pid, ok)
     IN local' = [local EXCEPT ![p] =
          IF q < 0 THEN Fail(l, "Quantity cannot be negative", "none")
          ELSE IF q = 0 THEN RemoveGet(l, ok)
          ELSE IF info = None THEN Fail(l, "Product not found", "none")
          ELSE IF q > Val(info).stock THEN Fail(l, "Insufficient stock", "none")
          ELSE [l EXCEPT !.pc = "upd_get", !.product_info = info]]
  /\ UNCHANGED <<Relational, carts, now>>
  /\ Track(p, u, NoEffect)
  /\ UNCHANGED RetrievalVars

\* (mutant) the quantity is added to the line's quantity
ReplaceQuantityAdding(cart, pid, q) ==
  [cart EXCEPT ![pid].quantity = cart[pid].quantity + q]

\* current_cart["items"][product_id]["quantity"] = quantity
ReplaceQuantity(cart, pid, q) == [cart EXCEPT ![pid].quantity = q]

update_item_quantity_get(p, ok) ==
  /\ local[p].pc = "upd_get"
  /\ LET l == local[p]
         read == get_json(carts, l.user_id)
     IN local' = [local EXCEPT ![p] =
          IF ~ok THEN Fail(l, "Failed to update item quantity", "RedisError")
          ELSE IF read = None \/ l.product_id \notin Lines(Val(read))
          THEN Fail(l, "Item not found in cart", "none")
          ELSE [l EXCEPT !.pc = "upd_set",
                         !.current_cart = Some(ReplaceQuantity(Val(read), l.product_id, l.quantity))]]
  /\ UNCHANGED <<Relational, carts, now, calls>>
  /\ Track(p, local[p].user_id, effect[p])
  /\ UNCHANGED RetrievalVars

update_item_quantity_set(p, ok) ==
  /\ local[p].pc = "upd_set"
  /\ LET l == local[p]
     IN IF ok
        THEN /\ carts' = set_json(carts, l.user_id, Val(l.current_cart), cart_ttl)
             /\ local' = [local EXCEPT ![p] = Succeed(l, "Item quantity updated")]
        ELSE /\ local' = [local EXCEPT ![p] = Fail(l, "Failed to update item quantity", "RedisError")]
             /\ UNCHANGED carts
  /\ UNCHANGED <<Relational, now, calls>>
  /\ Track(p, local[p].user_id, effect[p])
  /\ UNCHANGED RetrievalVars

\* ---------------------------------------------------------------- get_cart
get_cart(p, u, ok) ==
  /\ CanInvoke(p)
  /\ calls' = calls + 1
  /\ LET l == Invoke(p, "get_cart", u, "-", 0)
         read == get_json(carts, u)
     IN local' = [local EXCEPT ![p] =
          IF ~ok THEN Fail(l, "Failed to retrieve cart", "RedisError")
          ELSE Succeed([l EXCEPT !.current_cart =
                          IF read = None THEN Some(EmptyItems) ELSE read], "-")]
  /\ UNCHANGED <<Relational, carts, now>>
  /\ Track(p, u, NoEffect)
  /\ UNCHANGED RetrievalVars

\* -------------------------------------------------------------- clear_cart
clear_cart(p, u, ok) ==
  /\ CanInvoke(p)
  /\ calls' = calls + 1
  /\ LET l == Invoke(p, "clear_cart", u, "-", 0)
     IN IF ok
        THEN /\ carts' = redis_delete(carts, u)
             /\ local' = [local EXCEPT ![p] =
                  [Succeed([l EXCEPT !.current_cart = Some(EmptyItems)], "Cart cleared")
                     EXCEPT !.result.summary = Some(ClearedSummary)]]
        ELSE /\ local' = [local EXCEPT ![p] = Fail(l, "Failed to clear cart", "RedisError")]
             /\ UNCHANGED carts
  /\ UNCHANGED <<Relational, now>>
  /\ Track(p, u, NoEffect)
  /\ UNCHANGED RetrievalVars

\* ------------------------------------------------------ extend_cart_expiry
extend_cart_expiry(p, u, ok) ==
  /\ CanInvoke(p)
  /\ calls' = calls + 1
  /\ LET l == Invoke(p, "extend_cart_expiry", u, "-", 0)
         read == get_json(carts, u)
     IN local' = [local EXCEPT ![p] =
          IF ~ok THEN Fail(l, "False", "RedisError")
          ELSE IF read = None THEN Fail(l, "False", "none")
          ELSE [l EXCEPT !.pc = "ext_set", !.current_cart = read]]
  /\ UNCHANGED <<Relational, carts, now>>
  /\ Track(p, u, NoEffect)
  /\ UNCHANGED RetrievalVars

extend_cart_expiry_set(p, ok) ==
  /\ local[p].pc = "ext_set"
  /\ LET l == local[p]
     IN IF ok
        THEN /\ carts' = set_json(carts, l.user_id, Val(l.current_cart), cart_ttl)
             /\ local' = [local EXCEPT ![p] = Succeed([l EXCEPT !.current_cart = None], "True")]
        ELSE /\ local' = [local EXCEPT ![p] = Fail(l, "False", "RedisError")]
             /\ UNCHANGED carts
  /\ UNCHANGED <<Relational, now, calls>>
  /\ Track(p, local[p].user_id, effect[p])
  /\ UNCHANGED RetrievalVars

\* --------------------------------------------------- convert_cart_to_order
\* (mutant) an absent cart is reported as a success
EmptyCartAccepted(l) == Succeed(l, "Cart is empty")

\* return {"success": False, "message": "Cart is empty"}
EmptyCartRefused(l) == Fail(l, "Cart is empty", "none")

\* read the cart
convert_cart_to_order(p, u, ok) ==
  /\ CanInvoke(p)
  /\ calls' = calls + 1
  /\ LET l == Invoke(p, "convert_cart_to_order", u, "-", 0)
         read == get_json(carts, u)
     IN local' = [local EXCEPT ![p] =
          IF ~ok THEN Fail(l, "Failed to create order", "RedisError")
          ELSE IF read = None \/ Lines(Val(read)) = {} THEN EmptyCartRefused(l)
          ELSE [l EXCEPT !.pc = "conv_validate", !.current_cart = read, !.todo = Lines(Val(read))]]
  /\ UNCHANGED <<Relational, carts, now>>
  /\ Track(p, u, NoEffect)
  /\ UNCHANGED RetrievalVars

\* (mutant) the stock check is skipped
LineInStockSkipped(items, pid, info) == TRUE

\* the stock check of one cart line
LineInStock(items, pid, info) == items[pid].quantity <= info.stock

\* one turn of the validation loop: look the line's product up, compare the stock
convert_validate(p, pid, ok) ==
  /\ local[p].pc = "conv_validate"
  /\ pid \in local[p].todo
  /\ LET l == local[p]
         info == _get_product_info(pid, ok)
     IN local' = [local EXCEPT ![p] =
          IF info = None THEN Fail(l, "Product not found", "none")
          ELSE IF ~LineInStock(Val(l.current_cart), pid, Val(info))
          THEN Fail(l, "Insufficient stock for", "none")
          ELSE [l EXCEPT !.todo = l.todo \ {pid},
                         !.pc = IF l.todo = {pid} THEN "conv_tx" ELSE "conv_validate"]]
  /\ UNCHANGED <<Relational, carts, now, calls>>
  /\ Track(p, local[p].user_id, effect[p])
  /\ UNCHANGED RetrievalVars

\* the order transaction: insert the order, per line insert the item and decrement
\* the stock, commit; any error rolls the whole transaction back
convert_transaction(p, ok) ==
  /\ local[p].pc = "conv_tx"
  /\ LET l == local[p]
         items == Val(l.current_cart)
         order_id == OrderId(l.user_id, now)
     IN IF ~ok
        THEN /\ local' = [local EXCEPT ![p] =
                  Fail([l EXCEPT !.order_id = Some(order_id)], "Failed to create order", "PostgresError")]
             /\ UNCHANGED <<stock, orders, order_items>>
        ELSE IF ~PrimaryKeyFree(orders, order_id)
        THEN /\ local' = [local EXCEPT ![p] =
                  Fail([l EXCEPT !.order_id = Some(order_id)], "Failed to create order", "UniqueViolation")]
             /\ UNCHANGED <<stock, orders, order_items>>
        ELSE /\ orders' = orders \cup {[id |-> order_id, user_id |-> l.user_id]}
             /\ order_items' = order_items \cup OrderItemRows(order_id, items)
             /\ stock' = DecrementStock(stock, items)
             /\ local' = [local EXCEPT ![p] =
                  [l EXCEPT !.pc = "conv_delete", !.order_id = Some(order_id)]]
  /\ UNCHANGED <<price, name, carts, now, calls>>
  /\ Track(p, local[p].user_id, effect[p])
  /\ UNCHANGED RetrievalVars

\* delete the cart row, return the order id
convert_delete(p, ok) ==
  /\ local[p].pc = "conv_delete"
  /\ LET l == local[p]
     IN IF ok
        THEN /\ carts' = redis_delete(carts, l.user_id)
             /\ local' = [local EXCEPT ![p] =
                  Succeed(l, "Order created successfully")]
        ELSE /\ local' = [local EXCEPT ![p] = Fail(l, "Failed to create order", "RedisError")]
             /\ UNCHANGED carts
  /\ UNCHANGED <<Relational, now, calls>>
  /\ Track(p, local[p].user_id, effect[p])
  /\ UNCHANGED RetrievalVars

\* ------------------------------------------------------------- environment
\* d seconds pass: every cart's remaining TTL shrinks, a cart with none left is gone
Expire(store, d) ==
  [k \in {u \in DOMAIN store : store[u].ttl > d} |-> [store[k] EXCEPT !.ttl = @ - d]]

\* d seconds pass between two calls
Lapses == {1, cart_ttl - 1, cart_ttl}

Tick(d) ==
  /\ \A p \in Procs : local[p].pc \in {"idle", "done"}
  /\ now < MaxNow
  /\ now' = now + d
  /\ carts' = Expire(carts, d)
  /\ made' = [u \in Users |-> IF u \in DOMAIN carts' THEN made[u] ELSE {}]
  /\ UNCHANGED <<Relational, local, calls, effect>>
  /\ UNCHANGED RetrievalVars

\* the wall clock passes a second boundary while handlers run; the time that
\* passes is below the whole seconds a TTL is counted in
SecondTurns ==
  /\ now < MaxNow
  /\ now' = now + 1
  /\ UNCHANGED <<Relational, carts, local, calls, effect, made>>
  /\ UNCHANGED RetrievalVars

\* the catalog owner edits a product's price and name
CatalogEdit(pid) ==
  /\ price[pid] = OldPrice[pid]
  /\ \A p \in Procs : local[p].pc \in {"idle", "done"}
  /\ price' = [price EXCEPT ![pid] = NewPrice[pid]]
  /\ name' = [name EXCEPT ![pid] = NewName[pid]]
  /\ UNCHANGED <<stock, orders, order_items, carts, now, local, calls, effect, made>>
  /\ UNCHANGED RetrievalVars

\* the server process dies in the middle of a handler: nothing more of it runs
Crash(p) ==
  /\ local[p].pc \notin {"idle", "done"}
  /\ local' = [local EXCEPT ![p] = Idle]
  /\ effect' = [effect EXCEPT ![p] = NoEffect]
  /\ UNCHANGED <<Relational, carts, now, calls, made>>
  /\ UNCHANGED RetrievalVars

\* ------------------------------------------------------- the specifications
Step(p, ok) ==
  \/ \E u \in Users, pid \in ProductIds, q \in ValidQuantities : add_item(p, u, pid, q, ok)
  \/ add_item_get(p, ok)
  \/ add_item_set(p, ok)
  \/ \E u \in Users, pid \in ProductIds : remove_item(p, u, pid, ok)
  \/ remove_item_set(p, ok)
  \/ \E u \in Users, pid \in ProductIds, q \in ValidQuantities : update_item_quantity(p, u, pid, q, ok)
  \/ update_item_quantity_get(p, ok)
  \/ update_item_quantity_set(p, ok)
  \/ \E u \in Users : clear_cart(p, u, ok)
  \/ \E u \in Users : extend_cart_expiry(p, u, ok)
  \/ extend_cart_expiry_set(p, ok)
  \/ \E u \in Users : convert_cart_to_order(p, u, ok)
  \/ \E pid \in ProductIds : convert_validate(p, pid, ok)
  \/ convert_transaction(p, ok)
  \/ convert_delete(p, ok)

\* concurrent handlers with valid arguments; any store call may fail and a
\* handler may die at any point
Next ==
  \/ \E p \in Procs, ok \in BOOLEAN : Step(p, ok)
  \/ \E p \in Procs : Crash(p)
  \/ SecondTurns

Spec == Init /\ [][Next]_vars

\* one handler at a time, which may die, over stores that answer; every argument
NextSeq ==
  \/ \E u \in Users, pid \in ProductIds \cup {UnknownId}, q \in Quantities :
       \/ add_item(SeqProc, u, pid, q, TRUE)
       \/ update_item_quantity(SeqProc, u, pid, q, TRUE)
  \/ \E u \in Users, pid \in ProductIds \cup {UnknownId} : remove_item(SeqProc, u, pid, TRUE)
  \/ \E u \in Users :
       \/ get_cart(SeqProc, u, TRUE)
       \/ clear_cart(SeqProc, u, TRUE)
       \/ extend_cart_expiry(SeqProc, u, TRUE)
       \/ convert_cart_to_order(SeqProc, u, TRUE)
  \/ add_item_get(SeqProc, TRUE)
  \/ add_item_set(SeqProc, TRUE)
  \/ remove_item_set(SeqProc, TRUE)
  \/ update_item_quantity_get(SeqProc, TRUE)
  \/ update_item_quantity_set(SeqProc, TRUE)
  \/ extend_cart_expiry_set(SeqProc, TRUE)
  \/ \E pid \in ProductIds : convert_validate(SeqProc, pid, TRUE)
  \/ convert_transaction(SeqProc, TRUE)
  \/ convert_delete(SeqProc, TRUE)
  \/ Crash(SeqProc)
  \/ \E pid \in ProductIds : CatalogEdit(pid)
  \/ \E d \in Lapses : Tick(d)

SpecSeq == Init /\ [][NextSeq]_vars

\* ------------------------------------------------------------------ claims
Done(p, opname) == local[p].pc = "done" /\ local[p].op = opname

StoredItems(store, u) == IF u \in DOMAIN store THEN store[u].items ELSE EmptyItems

PrevQuantity(store, u, pid) ==
  IF pid \in Lines(StoredItems(store, u)) THEN StoredItems(store, u)[pid].quantity ELSE 0

RECURSIVE SumQuantity(_)
SumQuantity(rows) ==
  IF rows = {} THEN 0
  ELSE LET r == CHOOSE x \in rows : TRUE IN r.quantity + SumQuantity(rows \ {r})

Sold(pid) == SumQuantity({r \in order_items : r.product_id = pid})

\* C1: conversions of different users' carts never sell more units of a product
\* than its initial stock, and no product's stock is ever negative.  (Each user
\* has at most one order here, so the orders are those of different users.)
C1_NoOversell ==
  (\A u \in Users : Cardinality({o \in orders : o.user_id = u}) <= 1)
    => \A pid \in ProductIds : stock[pid] >= 0 /\ Sold(pid) <= InitStock

\* C2: a conversion whose stock re-check fails on a line (product not found, or
\* quantity above the stock the check reads) returns success = false, and the
\* call has inserted no row, taken no stock and left the cart row as it was;
\* the validation loop passes only over a line whose quantity the stock covers,
\* and the transaction starts only when every line has passed.
ValidationFailed(p) ==
  /\ Done(p, "convert_cart_to_order")
  /\ local[p].result.message \in {"Product not found", "Insufficient stock for"}

C2_NoPartialEffect ==
  \A p \in Procs :
    /\ ValidationFailed(p) => ~local[p].result.success /\ effect[p] = NoEffect
    /\ local[p].pc = "conv_validate" => effect[p] = NoEffect
    /\ local[p].pc \in {"conv_tx", "conv_delete"} => local[p].todo = {}

C2_PassesOnlyInStock(p) ==
  (/\ local[p].pc = "conv_validate"
   /\ local'[p] # local[p]
   /\ local'[p].pc \in {"conv_validate", "conv_tx"})
    => \E pid \in local[p].todo :
         /\ local'[p].todo = local[p].todo \ {pid}
         /\ Val(local[p].current_cart)[pid].quantity <= stock[pid]

C2_ConversionAtomicity ==
  [](C2_NoPartialEffect) /\ [][\A p \in Procs : C2_PassesOnlyInStock(p)]_vars

\* C2 witness: a conversion has failed its stock re-check after another
\* conversion took the stock
C2_Witness ==
  \E p \in Procs :
    /\ ValidationFailed(p)
    /\ local[p].result.message = "Insufficient stock for"
    /\ orders # {}

\* C3: a conversion that returns success = false because a store call failed
\* (the order transaction or the deletion of the cart row) has changed nothing:
\* no row inserted, no stock taken, the cart row kept.
C3_FailClosed ==
  \A p \in Procs :
    (/\ Done(p, "convert_cart_to_order")
     /\ ~local[p].result.success
     /\ local[p].result.err \in {"PostgresError", "UniqueViolation", "RedisError"})
      => effect[p] = NoEffect

\* C4: of two conversions that run concurrently for the same user on the same
\* cart contents, at most one commits an order.
C4_AtMostOneOrderPerCart ==
  \A p, q \in Procs :
    (/\ p # q
     /\ local[p].pc = "conv_delete" /\ local[q].pc = "conv_delete"
     /\ local[p].user_id = local[q].user_id
     /\ local[p].current_cart = local[q].current_cart)
      => ~(effect[p].orders # {} /\ effect[q].orders # {})

\* C5: a cart row whose conversion has committed an order is never the source
\* of a second order, however the conversion is retried: the orders committed
\* from one cart row are at most one.
C5_RetryAddsNothing == \A u \in Users : Cardinality(made[u]) <= 1

\* C6: when a cart mutation (add, update, remove) returns success while another
\* mutation of the same user's cart has returned success, its write changes
\* only its own line of the stored cart: every other line in the store stays as
\* it is (neither dropped nor brought back), and an add leaves its line at the
\* stored quantity plus the added one, so that both mutations are reflected.
CartMutations == {"add_item", "update_item_quantity", "remove_item"}

C6_WriteKeepsOthers(p) ==
  (/\ local[p].pc \in {"add_set", "upd_set", "rm_set"}
   /\ local'[p].pc = "done"
   /\ local'[p].result.success
   /\ \E q \in Procs \ {p} :
        /\ local[q].pc = "done" /\ local[q].op \in CartMutations
        /\ local[q].result.success
        /\ local[q].user_id = local[p].user_id)
    => LET u == local[p].user_id
           pid == local[p].product_id
           before == StoredItems(carts, u)
           after == StoredItems(carts', u)
       IN /\ \A x \in ProductIds \ {pid} :
               /\ x \in Lines(before) <=> x \in Lines(after)
               /\ x \in Lines(before) => after[x] = before[x]
          /\ local[p].pc = "add_set" =>
               /\ pid \in Lines(after)
               /\ after[pid].quantity = PrevQuantity(carts, u, pid) + local[p].quantity

C6_NoLostUpdate == [][\A p \in Procs : C6_WriteKeepsOthers(p)]_vars

\* C7: when a conversion returns success for a cart with lines L, the call has
\* inserted exactly one order, of the user and with the returned order id, one
\* order item per line of L with the line's product id and quantity, has lowered
\* each product's stock by its line quantity, and the cart row is gone.
C7_SuccessfulConversion ==
  \A p \in Procs :
    (Done(p, "convert_cart_to_order") /\ local[p].result.success) =>
      LET l == local[p]
          L == Val(l.current_cart)
          e == effect[p]
          oid == Val(l.result.order_id)
      IN /\ e.orders = {[id |-> oid, user_id |-> l.user_id]}
         /\ e.orders \subseteq orders
         /\ Cardinality(e.order_items) = Cardinality(Lines(L))
         /\ \A pid \in Lines(L) :
              \E r \in e.order_items :
                r.order_id = oid /\ r.product_id = pid /\ r.quantity = L[pid].quantity
         /\ e.order_items \subseteq order_items
         /\ e.stock = [pid \in ProductIds |->
                         IF pid \in Lines(L) THEN L[pid].quantity ELSE 0]
         /\ e.cart = "deleted"
         /\ l.user_id \notin DOMAIN carts

\* C7 witness: a cart of two lines has been converted
C7_Witness ==
  \E p \in Procs :
    /\ Done(p, "convert_cart_to_order")
    /\ local[p].result.success
    /\ Cardinality(Lines(Val(local[p].current_cart))) = 2

\* C8: add_item fails and leaves the stored carts as they are when the quantity
\* is not positive, the product is unknown, or the quantity in the cart plus the
\* added one exceeds the live stock; otherwise it succeeds, the line's quantity
\* becomes the previous quantity (0 for a new line) plus the added one, and the
\* row is saved with the full TTL.  (Store calls succeed.)
C8_Refused(l) == l.pc = "done" /\ ~l.result.success /\ l.current_cart = None

C8_AddStep(p) ==
  LET l == local[p]
      n == local'[p]
      u == n.user_id
      pid == n.product_id
      q == n.quantity
  IN /\ (calls' = calls + 1 /\ n.op = "add_item") =>
          /\ carts' = carts
          /\ IF q <= 0 \/ pid \notin ProductIds \/ q > stock[pid]
             THEN C8_Refused(n) ELSE n.pc = "add_get"
     /\ (l.pc = "add_get" /\ n.pc # "idle") =>
          /\ carts' = carts
          /\ IF PrevQuantity(carts, u, pid) + q > stock[pid]
             THEN C8_Refused(n) ELSE n.pc = "add_set"
     /\ (l.pc = "add_set" /\ n.pc # "idle") =>
          /\ n.pc = "done" /\ n.result.success
          /\ u \in DOMAIN carts'
          /\ pid \in Lines(carts'[u].items)
          /\ carts'[u].items[pid].quantity = PrevQuantity(carts, u, pid) + q
          /\ carts'[u].ttl = cart_ttl
          /\ n.current_cart = Some(carts'[u].items)
          /\ \A v \in Users \ {u} : StoredItems(carts', v) = StoredItems(carts, v)

C8_AddItemContract == [][C8_AddStep(SeqProc)]_vars

\* C8 witness: an add has succeeded on a line that was already in the cart
C8_Witness ==
  /\ Done(SeqProc, "add_item")
  /\ local[SeqProc].result.success
  /\ Val(local[SeqProc].current_cart)[local[SeqProc].product_id].quantity
       > local[SeqProc].quantity

\* C9: the write of a successful add_item leaves the line with the price and
\* the name the product has in the relational store, whether the line was new
\* or already in the cart.
C9_LiveSnapshotOnAdd ==
  [][\A p \in Procs :
       (local[p].pc = "add_set" /\ local'[p].pc = "done" /\ local'[p].result.success)
         => LET line == carts'[local[p].user_id].items[local[p].product_id]
            IN line.price = price[local[p].product_id]
               /\ line.name = name[local[p].product_id]]_vars

\* C10: remove_item fails with the carts unchanged when the line is absent;
\* otherwise its write stores the cart it read without that line, or deletes
\* the row when no line is left; and no stored cart row has an empty item map.
C10_NoEmptyCartRow == \A u \in DOMAIN carts : Lines(carts[u].items) # {}

C10_RemoveStep(p) ==
  LET l == local[p]
      n == local'[p]
      u == n.user_id
      pid == n.product_id
  IN /\ (calls' = calls + 1 /\ n # l /\ n.op = "remove_item") =>
          /\ carts' = carts
          /\ IF pid \in Lines(StoredItems(carts, u))
             THEN \/ n.pc = "rm_set" /\ n.current_cart = Some(carts[u].items)
                  \/ n.pc = "done" /\ ~n.result.success /\ n.result.err = "RedisError"
             ELSE n.pc = "done" /\ ~n.result.success
     /\ (l.pc = "rm_set" /\ n.pc = "done" /\ n.result.success) =>
          LET read == Val(l.current_cart)
              rest == [x \in Lines(read) \ {pid} |-> read[x]]
          IN /\ n.current_cart = Some(rest)
             /\ IF Lines(read) = {pid}
                THEN u \notin DOMAIN carts'
                ELSE u \in DOMAIN carts' /\ carts'[u].items = rest
             /\ \A v \in Users \ {u} : StoredItems(carts', v) = StoredItems(carts, v)

C10_RemoveContract ==
  [](C10_NoEmptyCartRow) /\ [][\A p \in Procs : C10_RemoveStep(p)]_vars

\* C10 witness: removing the last line has deleted the cart row
C10_Witness ==
  \E p \in Procs :
    /\ Done(p, "remove_item")
    /\ local[p].result.success
    /\ effect[p].cart = "deleted"
    /\ Lines(Val(local[p].current_cart)) = {}

\* C11: update_item_quantity with a negative quantity fails with nothing
\* changed; with quantity 0 it does what remove_item does (refuses an absent
\* line, else stores the cart without the line or deletes the row); with a
\* quantity above the live stock, an unknown product or a line absent from the
\* cart it fails with the carts unchanged; otherwise the line's quantity becomes
\* the given one and every other line, and the line's price and name, stay.
\* (Store calls succeed.)
C11_UpdateStep(p) ==
  LET l == local[p]
      n == local'[p]
      u == n.user_id
      pid == n.product_id
      q == n.quantity
      stored == StoredItems(carts, u)
  IN /\ (calls' = calls + 1 /\ n.op = "update_item_quantity") =>
          /\ carts' = carts
          /\ IF q < 0 THEN C8_Refused(n)
             ELSE IF q = 0
             THEN IF pid \in Lines(stored)
                  THEN n.pc = "rm_set" /\ n.current_cart = Some(stored)
                  ELSE C8_Refused(n) /\ n.result.message = "Item not found in cart"
             ELSE IF pid \notin ProductIds \/ q > stock[pid]
             THEN C8_Refused(n)
             ELSE n.pc = "upd_get"
     /\ (l.pc = "upd_get" /\ n.pc # "idle") =>
          /\ carts' = carts
          /\ IF pid \notin Lines(stored) THEN C8_Refused(n) ELSE n.pc = "upd_set"
     /\ (l.pc = "upd_set" /\ n.pc # "idle") =>
          /\ n.pc = "done" /\ n.result.success
          /\ u \in DOMAIN carts'
          /\ Lines(carts'[u].items) = Lines(stored)
          /\ \A x \in Lines(stored) :
               carts'[u].items[x] =
                 IF x = pid
                 THEN [quantity |-> q, price |-> stored[x].price, name |-> stored[x].name]
                 ELSE stored[x]
          /\ n.current_cart = Some(carts'[u].items)
     /\ (l.pc = "rm_set" /\ l.op = "update_item_quantity" /\ n.pc # "idle") =>
          /\ n.pc = "done" /\ n.result.success
          /\ n.result.message = "Item removed from cart"
          /\ StoredItems(carts', u) = [x \in Lines(stored) \ {pid} |-> stored[x]]
          /\ Lines(stored) = {pid} => u \notin DOMAIN carts'
     /\ (n.op = "update_item_quantity" /\ n # l /\ n.pc # "idle") =>
          /\ stock' = stock /\ orders' = orders /\ order_items' = order_items
          /\ \A v \in Users \ {u} : StoredItems(carts', v) = StoredItems(carts, v)

C11_UpdateContract == [][C11_UpdateStep(SeqProc)]_vars

\* C11 witness: the quantity of one line of a cart of two lines has been replaced
C11_Witness ==
  /\ Done(SeqProc, "update_item_quantity")
  /\ local[SeqProc].result.success
  /\ local[SeqProc].quantity = 2
  /\ Cardinality(Lines(Val(local[SeqProc].current_cart))) = 2
  /\ Val(local[SeqProc].current_cart)[local[SeqProc].product_id].quantity = 2

\* C12: convert_cart_to_order for a user with no cart row (or a row with no
\* line) returns success = false with the message "Cart is empty" and no order
\* id, and writes nothing: orders, order items, stock and carts stay as they
\* are.  (Store calls succeed.)
C12_EmptyStep(p) ==
  LET n == local'[p]
  IN (/\ calls' = calls + 1
      /\ n.op = "convert_cart_to_order"
      /\ Lines(StoredItems(carts, n.user_id)) = {})
       => /\ n.pc = "done"
          /\ ~n.result.success
          /\ n.result.message = "Cart is empty"
          /\ n.result.order_id = None
          /\ carts' = carts
          /\ stock' = stock /\ orders' = orders /\ order_items' = order_items

C12_EmptyReturned ==
  \A p \in Procs :
    (Done(p, "convert_cart_to_order") /\ local[p].result.message = "Cart is empty")
      => ~local[p].result.success /\ effect[p] = NoEffect

C12_EmptyCartRefused == [](C12_EmptyReturned) /\ [][C12_EmptyStep(SeqProc)]_vars

\* C12 witness: a conversion has been refused for a user who has no cart row
C12_Witness ==
  /\ Done(SeqProc, "convert_cart_to_order")
  /\ local[SeqProc].result.message = "Cart is empty"
  /\ local[SeqProc].user_id \notin DOMAIN carts

\* C13: once convert_cart_to_order or clear_cart has returned success for a
\* user and the user's cart row is absent, a write of another handler brings a
\* row back only as the cart of a fresh add_item: the one line it adds, with the
\* quantity it adds.  No write of an operation that read the cart before the
\* deletion restores the deleted lines.
CartDeleters == {"convert_cart_to_order", "clear_cart"}

C13_WriteAfterDelete(p) ==
  LET l == local[p]
      u == l.user_id
  IN (/\ l.pc \in {"add_set", "upd_set", "rm_set", "ext_set"}
      /\ u \notin DOMAIN carts
      /\ u \in DOMAIN carts'
      /\ \E q \in Procs \ {p} :
           /\ local[q].pc = "done" /\ local[q].op \in CartDeleters
           /\ local[q].result.success
           /\ local[q].user_id = u)
       => /\ l.op = "add_item"
          /\ Lines(carts'[u].items) = {l.product_id}
          /\ carts'[u].items[l.product_id].quantity = l.quantity

C13_DeletedStaysAbsent == [][\A p \in Procs : C13_WriteAfterDelete(p)]_vars

\* C14: every successful add_item, update_item_quantity (quantity > 0),
\* remove_item that leaves a line and extend_cart_expiry on an existing cart
\* stores the cart with the full cart_ttl seconds to live; get_cart and every
\* failed mutation leave the stored carts, their remaining time included, as
\* they are; and when cart_ttl seconds pass between two calls every cart is
\* Absent, while one second less leaves a cart that had its full time.
C14_Resets == CartMutations \cup {"extend_cart_expiry"}

C14_TtlStep(p) ==
  LET l == local[p]
      n == local'[p]
      u == l.user_id
  IN /\ (/\ l.pc \in {"add_set", "upd_set", "rm_set", "ext_set"}
         /\ n.pc = "done" /\ n.result.success
         /\ (l.pc = "rm_set" => Lines(Val(l.current_cart)) # {l.product_id}))
          => u \in DOMAIN carts' /\ carts'[u].ttl = cart_ttl
     /\ (/\ n # l
         /\ n.op \in C14_Resets \cup {"get_cart"}
         /\ ~(n.pc = "done" /\ n.result.success /\ n.op \in C14_Resets))
          => carts' = carts
     /\ now' # now =>
          \A v \in DOMAIN carts :
            IF carts[v].ttl <= now' - now
            THEN v \notin DOMAIN carts'
            ELSE /\ v \in DOMAIN carts'
                 /\ carts'[v] = [carts[v] EXCEPT !.ttl = @ - (now' - now)]
     /\ now' - now = cart_ttl => carts' = EmptyStore

C14_SlidingTtl == [][C14_TtlStep(SeqProc)]_vars

\* C14 witness: a cart whose time had run down has its full time again after a
\* successful write
C14_Witness ==
  /\ local[SeqProc].pc = "done"
  /\ local[SeqProc].op \in C14_Resets
  /\ local[SeqProc].result.success
  /\ now = cart_ttl - 1
  /\ local[SeqProc].user_id \in DOMAIN carts
  /\ carts[local[SeqProc].user_id].ttl = cart_ttl
  /\ \E v \in DOMAIN carts : carts[v].ttl = 1

\* C15: the summary returned by a successful add_item, remove_item,
\* update_item_quantity or get_cart has total_items = the sum of the line
\* quantities of the returned cart, total_price = the sum of quantity x price
\* (in hundredths), item_count = the number of lines; the cart {A: 2 at 10,
\* B: 1 at 5} gives 3, 25.00, 2 and an absent cart 0, 0, 0.
SummaryOps == CartMutations \cup {"get_cart"}

RECURSIVE SumAmount(_)
SumAmount(rows) ==
  IF rows = {} THEN 0
  ELSE LET r == CHOOSE x \in rows : TRUE IN r.amount + SumAmount(rows \ {r})

ExampleCart ==
  [pid \in ProductIds |-> [quantity |-> IF OldPrice[pid] = 10 THEN 2 ELSE 1,
                           price |-> OldPrice[pid], name |-> OldName[pid]]]

C15_CartArithmetic ==
  \A p \in Procs :
    (local[p].pc = "done" /\ local[p].op \in SummaryOps /\ local[p].result.success) =>
      LET cart == Val(local[p].current_cart)
          sum == Val(local[p].result.summary)
      IN /\ sum.total_items =
              SumQuantity({[product_id |-> x, quantity |-> cart[x].quantity] : x \in Lines(cart)})
         /\ sum.total_price =
              100 * SumAmount({[product_id |-> x, amount |-> cart[x].quantity * cart[x].price] :
                                 x \in Lines(cart)})
         /\ sum.item_count = Cardinality(Lines(cart))
         /\ cart = ExampleCart =>
              sum = [total_items |-> 3, total_price |-> 2500, item_count |-> 2]
         /\ cart = EmptyItems =>
              sum = [total_items |-> 0, total_price |-> 0, item_count |-> 0]

\* C15 witness: an add has returned the cart {A: 2 at 10, B: 1 at 5}
C15_Witness ==
  /\ Done(SeqProc, "add_item")
  /\ local[SeqProc].result.success
  /\ local[SeqProc].current_cart = Some(ExampleCart)
  /\ Val(local[SeqProc].result.summary).total_price = 2500

\* ------------------------------------------------------ retrieval services
Lexical == {"search_products", "search_by_category", "get_product_suggestions"}

Vector == {"semantic_search", "more_like_this", "hybrid_search"}

Recommender ==
  {"get_similar_products", "get_also_bought_recommendations",
   "get_frequently_bought_together", "get_personalized_recommendations",
   "generate_trending_products"}

Operations == Lexical \cup Vector \cup Recommender

\* the query text, category name, product id or user id of a call
Subjects == {"mug", "scarf"}
Limits == {5, 10}
\* semantic_weight, in tenths
Weights == {3, 7}
Seeds == {1, 2}
DataVersions == {"none", "v1"}

\* one piece of the text a key is made of
Tok(k, t, str, n) == [k |-> k, t |-> t, s |-> str, n |-> n]
Str(k, str) == Tok(k, "str", str, 0)
Num(k, n) == Tok(k, "num", "", n)
Null(k) == Tok(k, "null", "", 0)

\* hash(query): the string hash of the process, which depends on its seed
hash(sd, str) == Tok("", "hash", str, sd)

\* the filter names in the order sort_keys puts them
KeyRank ==
  [k \in {"category", "limit", "max_price", "min_price", "offset"} |->
     IF k = "category" THEN 1 ELSE IF k = "limit" THEN 2 ELSE IF k = "max_price" THEN 3
     ELSE IF k = "min_price" THEN 4 ELSE 5]

\* (mutant) the entries are serialised in insertion order
InsertionOrder(f) == f

\* json.dumps(..., sort_keys=True) on a dict whose entries were inserted in the order of f
sort_keys(f) ==
  [i \in 1 .. Len(f) |->
     f[CHOOSE j \in 1 .. Len(f) :
         Cardinality({m \in 1 .. Len(f) : KeyRank[f[m].k] < KeyRank[f[j].k]}) = i - 1]]

\* "search:" + md5 of the JSON text of {"filters": ..., "query": ...}; the digest
\* is held as the text it digests (no two texts of the model share a digest)
_generate_cache_key(query, filters) ==
  [family |-> "search", text |-> sort_keys(filters) \o <<Str("query", query)>>]

\* the filters dict search_products builds, in the order it builds it
SearchFilters(category, min_price, max_price, limit, offset) ==
  <<category, min_price, max_price, Num("limit", limit), Num("offset", offset)>>

\* the cache key each operation derives; sd is the hash seed of the process
CacheKey(op, sd, subject, limit, weight) ==
  IF op = "search_products"
  THEN _generate_cache_key(subject,
         SearchFilters(Null("category"), Null("min_price"), Null("max_price"), limit, 0))
  ELSE IF op = "search_by_category"
  THEN [family |-> "category_search", text |-> <<Str("", subject), Num("", limit)>>]
  ELSE IF op = "get_product_suggestions"
  THEN [family |-> "suggestions", text |-> <<Str("", subject), Num("", limit)>>]
  ELSE IF op = "semantic_search"
  THEN [family |-> "semantic_search", text |-> <<hash(sd, subject), Num("", limit)>>]
  ELSE IF op = "hybrid_search"
  THEN [family |-> "hybrid_search",
        text |-> <<hash(sd, subject), Num("", limit), Num("", weight)>>]
  ELSE IF op = "more_like_this"
  THEN [family |-> "more_like_this", text |-> <<Str("", subject), Num("", limit)>>]
  ELSE IF op = "get_similar_products"
  THEN [family |-> "similar_products", text |-> <<Str("", subject), Num("", limit)>>]
  ELSE IF op = "get_also_bought_recommendations"
  THEN [family |-> "also_bought", text |-> <<Str("", subject), Num("", limit)>>]
  ELSE IF op = "get_frequently_bought_together"
  THEN [family |-> "bought_together", text |-> <<Str("", subject), Num("", limit)>>]
  ELSE IF op = "get_personalized_recommendations"
  THEN [family |-> "personalized", text |-> <<Str("", subject), Num("", limit)>>]
  ELSE [family |-> "trending_products", text |-> <<Num("", limit)>>]

\* the seconds an entry is written with
CacheTtl(op) ==
  IF op = "get_product_suggestions" THEN 300
  ELSE IF op = "generate_trending_products" THEN 1800
  ELSE 3600

\* the operations that count their hits and misses
Counted == {"search_products", "search_by_category"}

\* the operations that write the cache inside "with db.get_cursor()", so that
\* the commit of get_cursor comes after the write
CommitsAfterWrite ==
  Lexical \cup {"semantic_search", "more_like_this", "get_similar_products"}

\* a value of the cache: search_products stores a dict, the others a list
Rows(version) ==
  IF version = "none" THEN <<>> ELSE <<"A">>

Compute(op, version) ==
  [kind |-> IF op = "search_products" THEN "dict" ELSE "list", rows |-> Rows(version)]

NoRows == [kind |-> "list", rows |-> <<>>]

\* python truth of a value: a dict with keys is true, a list when it is not empty
Truthy(v) == v.kind = "dict" \/ Len(v.rows) > 0

\* (mutant) the misses over the requests
MissRate(h, m) == IF h + m = 0 THEN <<0, 1>> ELSE <<m, h + m>>

\* the quotient h / (h + m), held as the fraction; 0.0 when nothing was counted
get_cache_hit_rate(h, m) == IF h + m = 0 THEN <<0, 1>> ELSE <<h, h + m>>

\* ---------------------------------------------------- a retrieval call
\* the calls are made one after another, by either server process
Ready(p) == calls < MaxCalls /\ \A q \in Procs : req[q].pc \in {"idle", "done"}

Finish(r, value) == [r EXCEPT !.pc = "done", !.result = Some(value)]

\* the except clause: the lexical operations raise, the others return []
Except(r) ==
  IF r.op \in Lexical
  THEN [r EXCEPT !.pc = "done", !.raised = TRUE]
  ELSE Finish(r, NoRows)

\* the arguments the calls are made with: the searches by text with each
\* query and limit, the others with one product, user or category
Arguments(op) ==
  IF op \in {"search_products", "semantic_search"}
  THEN {<<subject, limit, 0>> : subject \in Subjects, limit \in Limits}
  ELSE IF op = "hybrid_search"
  THEN {<<subject, 5, weight>> : subject \in Subjects, weight \in Weights}
  ELSE {<<"mug", 10, 0>>}

\* the call is made and the key derived; the frames of the calls that have
\* returned are gone
Call(p, op, subject, limit, weight) ==
  /\ Ready(p)
  /\ calls' = calls + 1
  /\ req' = [q \in Procs |->
       IF q = p
       THEN [ReqIdle EXCEPT !.pc = "lookup", !.op = op, !.subject = subject,
                            !.limit = limit, !.weight = weight,
                            !.cache_key = Some(CacheKey(op, seed[p], subject, limit, weight))]
       ELSE ReqIdle]
  /\ UNCHANGED <<CartVars, tables, now, cache, data, cache_hit_count, cache_miss_count, seed>>

\* redis_client.get_json(cache_key) and "if cached_result:"; the lookup is
\* outside the try block, so its failure reaches the caller
Lookup(p, ok) ==
  /\ req[p].pc = "lookup"
  /\ LET r == req[p]
         cached_result == get_json(cache, Val(r.cache_key))
         hit == cached_result # None /\ Truthy(Val(cached_result))
         count == r.op \in Counted
         hits == IF ok /\ hit /\ count THEN cache_hit_count[p] + 1 ELSE cache_hit_count[p]
         misses == IF ok /\ ~hit /\ count THEN cache_miss_count[p] + 1
                   ELSE cache_miss_count[p]
     IN /\ cache_hit_count' = [cache_hit_count EXCEPT ![p] = hits]
        /\ cache_miss_count' = [cache_miss_count EXCEPT ![p] = misses]
        /\ req' = [req EXCEPT ![p] =
             IF ~ok THEN [r EXCEPT !.pc = "done", !.raised = TRUE]
             ELSE IF hit
             THEN [Finish(r, Val(cached_result)) EXCEPT
                     !.found = cached_result, !.cache_hit = TRUE, !.counted = count,
                     !.rate = IF r.op = "search_products"
                              THEN Some(get_cache_hit_rate(hits, misses)) ELSE None]
             ELSE [r EXCEPT !.pc = "compute", !.found = cached_result, !.counted = count]]
  /\ UNCHANGED <<CartVars, tables, now, calls, cache, data, seed>>

\* the rows of the fused list: the text rows, then the semantic rows not among them
Fuse(semantic, text) ==
  text \o SelectSeq(semantic, LAMBDA x : \A i \in 1 .. Len(text) : text[i] # x)

\* self.semantic_search(query, limit * 2) as hybrid_search calls it
InnerKey(r, sd) == CacheKey("semantic_search", sd, r.subject, 2 * r.limit, 0)

InnerHit(r, sd) ==
  /\ InnerKey(r, sd) \in DOMAIN cache
  /\ Truthy(cache[InnerKey(r, sd)].items)

\* the queries of the operation against the relational store, the graph store
\* and the embedding function; hybrid_search runs semantic_search first, which
\* looks its own entry up and writes it, and then its text query, which is the
\* one that fails here
Query(p, ok) ==
  /\ req[p].pc = "compute"
  /\ LET r == [req[p] EXCEPT !.queried = TRUE]
         fresh == Compute(r.op, data)
         semantic == IF InnerHit(r, seed[p]) THEN cache[InnerKey(r, seed[p])].items
                     ELSE Compute("semantic_search", data)
     IN /\ req' = [req EXCEPT ![p] =
             IF ~ok THEN Except(r)
             ELSE IF r.op = "hybrid_search"
             THEN [r EXCEPT !.pc = "write",
                            !.computed = Some([fresh EXCEPT !.rows = Fuse(semantic.rows, @)])]
             ELSE [r EXCEPT !.pc = "write", !.computed = Some(fresh)]]
        /\ cache' = IF r.op = "hybrid_search" /\ ~InnerHit(r, seed[p])
                    THEN set_json(cache, InnerKey(r, seed[p]), semantic,
                                  CacheTtl("semantic_search"))
                    ELSE cache
  /\ UNCHANGED <<CartVars, tables, now, calls, data, cache_hit_count, cache_miss_count, seed>>

\* more_like_this and get_similar_products find no embedding for the product
\* and return [] uncached
NoEmbedding(p) ==
  /\ req[p].pc = "compute"
  /\ req[p].op \in {"more_like_this", "get_similar_products"}
  /\ req' = [req EXCEPT ![p] = Finish([@ EXCEPT !.queried = TRUE], NoRows)]
  /\ UNCHANGED <<CartVars, tables, now, calls, cache, data, cache_hit_count, cache_miss_count, seed>>

\* redis_client.set_json(cache_key, result, ttl), and the return where no
\* commit follows; search_products reads the hit rate as it returns
WriteBack(p, ok) ==
  /\ req[p].pc = "write"
  /\ LET r == req[p]
         rated == IF r.op = "search_products"
                  THEN [r EXCEPT !.rate =
                          Some(get_cache_hit_rate(cache_hit_count[p], cache_miss_count[p]))]
                  ELSE r
     IN /\ cache' = IF ok THEN set_json(cache, Val(r.cache_key), Val(r.computed), CacheTtl(r.op))
                    ELSE cache
        /\ req' = [req EXCEPT ![p] =
             IF ~ok THEN Except(r)
             ELSE IF r.op \in CommitsAfterWrite
             THEN [rated EXCEPT !.pc = "commit", !.wrote = TRUE]
             ELSE Finish([r EXCEPT !.wrote = TRUE], Val(r.computed))]
  /\ UNCHANGED <<CartVars, tables, now, calls, data, cache_hit_count, cache_miss_count, seed>>

\* conn.commit() as "with db.get_cursor()" is left
Commit(p, ok) ==
  /\ req[p].pc = "commit"
  /\ req' = [req EXCEPT ![p] =
       IF ok THEN Finish(@, Val(@.computed)) ELSE Except([@ EXCEPT !.rate = None])]
  /\ UNCHANGED <<CartVars, tables, now, calls, cache, data, cache_hit_count, cache_miss_count, seed>>

\* ------------------------------------------------ around the retrieval calls
\* what happens between two calls
\* the catalog, the purchase graph or the embeddings change
DataChange ==
  /\ \E p \in Procs : Ready(p)
  /\ \E v \in DataVersions \ {data} : data' = v
  /\ UNCHANGED <<CartVars, tables, now, calls, cache, cache_hit_count, cache_miss_count, seed, req>>

CacheLapses == {CacheTtl(op) : op \in Operations}

\* d seconds pass between two calls
CacheTick(d) ==
  /\ \E p \in Procs : Ready(p)
  /\ now < MaxNow
  /\ now' = now + d
  /\ cache' = Expire(cache, d)
  /\ UNCHANGED <<CartVars, tables, calls, data, cache_hit_count, cache_miss_count, seed, req>>

\* a server process is started again: a new hash seed, a new service object
Restart(p) ==
  /\ Ready(p)
  /\ \E sd \in Seeds : sd > seed[p] /\ seed' = [seed EXCEPT ![p] = sd]
  /\ req' = [req EXCEPT ![p] = ReqIdle]
  /\ cache_hit_count' = [cache_hit_count EXCEPT ![p] = 0]
  /\ cache_miss_count' = [cache_miss_count EXCEPT ![p] = 0]
  /\ UNCHANGED <<CartVars, tables, now, calls, cache, data>>

\* the cart service is at rest
CartQuiet ==
  /\ stock = [p \in ProductIds |-> InitStock]
  /\ price = OldPrice
  /\ name = OldName
  /\ orders = {}
  /\ order_items = {}
  /\ carts = EmptyStore
  /\ local = [p \in Procs |-> Idle]
  /\ effect = [p \in Procs |-> NoEffect]
  /\ made = [u \in Users |-> {}]

InitCache ==
  /\ CartQuiet
  /\ tables = NoTables
  /\ now = 0
  /\ calls = 0
  /\ cache = EmptyStore
  /\ data = "none"
  /\ cache_hit_count = [p \in Procs |-> 0]
  /\ cache_miss_count = [p \in Procs |-> 0]
  /\ seed = [p \in Procs |-> 1]
  /\ req = [p \in Procs |-> ReqIdle]

NextCache ==
  \/ \E p \in Procs, op \in Operations :
       \E a \in Arguments(op) : Call(p, op, a[1], a[2], a[3])
  \/ \E p \in Procs, ok \in BOOLEAN : Lookup(p, ok)
  \/ \E p \in Procs, ok \in BOOLEAN : Query(p, ok)
  \/ \E p \in Procs : NoEmbedding(p)
  \/ \E p \in Procs, ok \in BOOLEAN : WriteBack(p, ok)
  \/ \E p \in Procs, ok \in BOOLEAN : Commit(p, ok)
  \/ DataChange
  \/ \E d \in CacheLapses : CacheTick(d)
  \/ \E p \in Procs : Restart(p)

SpecCache == InitCache /\ [][NextCache]_vars

\* ------------------------------------------- the product search service alone
Reverse(f) == [i \in 1 .. Len(f) |-> f[Len(f) + 1 - i]]

DefaultFilters == SearchFilters(Null("category"), Null("min_price"), Null("max_price"), 10, 0)

\* the filters a request can carry: the defaults, and the defaults with one
\* value changed; prices arrive as floats, limit and offset as integers
FilterMaps ==
  {DefaultFilters,
   [DefaultFilters EXCEPT ![1] = Str("category", "home")],
   [DefaultFilters EXCEPT ![2] = Num("min_price", 10)],
   [DefaultFilters EXCEPT ![3] = Num("max_price", 50)],
   [DefaultFilters EXCEPT ![4] = Num("limit", 20)],
   [DefaultFilters EXCEPT ![5] = Num("offset", 10)]}

\* each of them as a dict filled in either order
FilterDicts == FilterMaps \cup {Reverse(f) : f \in FilterMaps}

\* a call of _generate_cache_key(query, filters)
GenerateKey(p, query, filters) ==
  /\ Ready(p)
  /\ calls' = calls + 1
  /\ req' = [req EXCEPT ![p] =
       [ReqIdle EXCEPT !.pc = "done", !.op = "_generate_cache_key", !.subject = query,
                       !.filters = filters,
                       !.cache_key = Some(_generate_cache_key(query, filters))]]
  /\ UNCHANGED <<CartVars, tables, now, cache, data, cache_hit_count, cache_miss_count, seed>>

\* a call of get_cache_hit_rate()
HitRate(p) ==
  /\ Ready(p)
  /\ calls' = calls + 1
  /\ req' = [req EXCEPT ![p] =
       [ReqIdle EXCEPT !.pc = "done", !.op = "get_cache_hit_rate",
                       !.rate = Some(get_cache_hit_rate(cache_hit_count[p],
                                                        cache_miss_count[p]))]]
  /\ UNCHANGED <<CartVars, tables, now, cache, data, cache_hit_count, cache_miss_count, seed>>

\* the service has counted the hits and misses of earlier requests
InitLexical ==
  /\ CartQuiet
  /\ tables = NoTables
  /\ now = 0
  /\ calls = 0
  /\ cache = EmptyStore
  /\ data \in DataVersions
  /\ \E h, m \in 0 .. MaxCount :
       /\ cache_hit_count = [p \in Procs |-> h]
       /\ cache_miss_count = [p \in Procs |-> m]
  /\ seed = [p \in Procs |-> 1]
  /\ req = [p \in Procs |-> ReqIdle]

NextLexical ==
  \/ \E p \in Procs, query \in Subjects, filters \in FilterDicts : GenerateKey(p, query, filters)
  \/ \E p \in Procs : HitRate(p)
  \/ \E a \in Arguments("search_products") : Call(SeqProc, "search_products", a[1], a[2], a[3])
  \/ \E ok \in BOOLEAN : Lookup(SeqProc, ok)
  \/ \E ok \in BOOLEAN : Query(SeqProc, ok)
  \/ \E ok \in BOOLEAN : WriteBack(SeqProc, ok)
  \/ \E ok \in BOOLEAN : Commit(SeqProc, ok)
  \/ \E d \in CacheLapses : CacheTick(d)

SpecLexical == InitLexical /\ [][NextLexical]_vars

\* C16: _generate_cache_key gives two calls the same key exactly when they have
\* the same query and the same filter entries, in whatever order the entries
\* were inserted; a changed query or a changed filter value changes the key.
KeyFrame(p) == req[p].pc = "done" /\ req[p].op = "_generate_cache_key"

Entries(f) == {f[i] : i \in 1 .. Len(f)}

C16_KeyOfQueryAndFilters ==
  \A p, q \in Procs :
    KeyFrame(p) /\ KeyFrame(q) =>
      (req[p].cache_key = req[q].cache_key
         <=> /\ req[p].subject = req[q].subject
             /\ Entries(req[p].filters) = Entries(req[q].filters))

C16_Witness ==
  \E p, q \in Procs :
    /\ KeyFrame(p) /\ KeyFrame(q)
    /\ req[p].subject = req[q].subject
    /\ req[p].filters # req[q].filters
    /\ Entries(req[p].filters) = Entries(req[q].filters)
    /\ req[p].cache_key = req[q].cache_key

\* C17: semantic_search and hybrid_search derive the same key for the same
\* query, limit and weight in every server process and after every restart:
\* a call's key is the key the same call had in any process before it.
VectorKeyed == {"semantic_search", "hybrid_search"}

C17_CallStep ==
  \A p, q \in Procs :
    /\ req'[p].pc = "lookup" /\ req[p].pc # "lookup"
    /\ req'[p].op \in VectorKeyed
    /\ req[q].pc = "done"
    /\ req[q].op = req'[p].op
    /\ req[q].subject = req'[p].subject
    /\ req[q].limit = req'[p].limit
    /\ req[q].weight = req'[p].weight
    => req'[p].cache_key = req[q].cache_key

C17_SameKeyInEveryProcess == [][C17_CallStep]_vars

\* C19: a call made while the entry of an identical earlier call is in the
\* cache returns the cached value and queries no store, whatever the value
\* is, an empty list included.
C19_ServedFromCache ==
  \A p \in Procs :
    req[p].pc = "done" /\ ~req[p].raised /\ req[p].found # None
      => ~req[p].queried /\ req[p].result = req[p].found

\* C20: a lexical operation that raises after it went to the relational store
\* has written no cache entry.
C20_FailureNotCached ==
  \A p \in Procs :
    req[p].pc = "done" /\ req[p].op \in Lexical /\ req[p].raised /\ req[p].queried
      => ~req[p].wrote

\* C18: get_cache_hit_rate returns h / (h + m), and 0 when h = m = 0; the
\* cache_hit_rate search_products returns is that ratio of the counters after
\* the call's own hit or miss was counted, which adds one to exactly one counter.
IsRatio(rate, h, m) ==
  IF h + m = 0 THEN rate[1] = 0 /\ rate[2] # 0
  ELSE rate[2] # 0 /\ rate[1] * (h + m) = h * rate[2]

C18_RateStep ==
  \A p \in Procs :
    LET h == cache_hit_count[p]
        m == cache_miss_count[p]
        h2 == cache_hit_count'[p]
        m2 == cache_miss_count'[p]
    IN /\ req[p].rate = None /\ req'[p].rate # None
            => /\ IsRatio(Val(req'[p].rate), h2, m2)
               /\ req'[p].op = "search_products" =>
                    IF req'[p].cache_hit THEN h2 = h + 1 /\ m2 = m
                    ELSE req[p].counted /\ h2 = h /\ m2 = m
       /\ ~req[p].counted /\ req'[p].counted /\ req'[p].op = "search_products"
            => IF req'[p].cache_hit THEN h2 = h + 1 /\ m2 = m ELSE h2 = h /\ m2 = m + 1

C18_HitRate == [][C18_RateStep]_vars

C18_Witness ==
  \E p \in Procs :
    /\ req[p].pc = "done" /\ req[p].op = "search_products" /\ req[p].cache_hit
    /\ cache_hit_count[p] = 2 /\ cache_miss_count[p] = 3
    /\ req[p].rate = Some(<<2, 5>>)

\* ------------------------------------------------------------ invalidation
\* the key of a cart in the same Redis database
CartKey(u) == [family |-> "cart", text |-> <<Str("", u)>>]

\* a pattern "family:*" (subject None) or "family:subject:*"
Pattern(family, subject) == [family |-> family, subject |-> subject]

\* (mutant) the subject of the pattern is not looked at
GlobFamilyOnly(pattern, key) == key.family = pattern.family

\* the glob match of KEYS: the pattern is anchored at the start of the key;
\* ids hold no ":" and no glob character, so the prefix "family:subject:"
\* matches the keys of that family whose first part is the subject
Glob(pattern, key) ==
  /\ key.family = pattern.family
  /\ \/ pattern.subject = None
     \/ Len(key.text) > 1 /\ key.text[1] = Str("", Val(pattern.subject))

\* redis_client.client.keys(pattern) for each pattern, over the whole database
keys(patterns) ==
  {k \in DOMAIN cache \cup {CartKey(u) : u \in DOMAIN carts} :
     \E pattern \in patterns : Glob(pattern, k)}

SearchPatterns ==
  {Pattern("search", None), Pattern("category_search", None), Pattern("suggestions", None)}

SemanticPatterns ==
  {Pattern("semantic_search", None), Pattern("more_like_this", None),
   Pattern("hybrid_search", None)}

\* the patterns clear_recommendation_cache(user_id, product_id) collects
RecommendationPatterns(user_id, product_id) ==
  (IF user_id # None THEN {Pattern("personalized", user_id)} ELSE {})
  \cup (IF product_id # None
        THEN {Pattern("similar_products", product_id), Pattern("also_bought", product_id),
              Pattern("bought_together", product_id)}
        ELSE {})
  \cup (IF user_id = None /\ product_id = None
        THEN {Pattern("personalized", None), Pattern("similar_products", None),
              Pattern("also_bought", None), Pattern("bought_together", None),
              Pattern("trending_products", None)}
        ELSE {})

\* keys(...) for each pattern, then one delete(*keys); a failure of either
\* is caught and the clear returns False
Clear(p, op, user_id, product_id, patterns, ok) ==
  /\ req[p].pc \in {"idle", "done"}
  /\ LET found == keys(patterns)
     IN /\ cache' = IF ok THEN [k \in DOMAIN cache \ found |-> cache[k]] ELSE cache
        /\ carts' = IF ok THEN [u \in {v \in DOMAIN carts : CartKey(v) \notin found} |-> carts[u]]
                    ELSE carts
  /\ req' = [req EXCEPT ![p] =
       [ReqIdle EXCEPT !.pc = "done", !.op = op, !.user_id = user_id,
                       !.product_id = product_id, !.success = ok]]
  /\ UNCHANGED <<Relational, local, effect, made, tables, now, calls, data, cache_hit_count,
                 cache_miss_count, seed>>

clear_search_cache(p, ok) == Clear(p, "clear_search_cache", None, None, SearchPatterns, ok)

clear_semantic_cache(p, ok) == Clear(p, "clear_semantic_cache", None, None, SemanticPatterns, ok)

clear_recommendation_cache(p, user_id, product_id, ok) ==
  Clear(p, "clear_recommendation_cache", user_id, product_id,
        RecommendationPatterns(user_id, product_id), ok)

\* the cache after every operation was called for every subject
Populated ==
  LET entries == {<<op, subject>> : op \in Operations, subject \in Subjects}
      key(e) == CacheKey(e[1], 1, e[2], 10, 7)
  IN [k \in {key(e) : e \in entries} |->
        LET e == CHOOSE e \in entries : key(e) = k
        IN [items |-> Compute(e[1], "v1"), ttl |-> CacheTtl(e[1])]]

OptionalIds == {None} \cup {Some(subject) : subject \in Subjects}

InitClear ==
  /\ stock = [p \in ProductIds |-> InitStock]
  /\ price = OldPrice
  /\ name = OldName
  /\ orders = {}
  /\ order_items = {}
  /\ carts \in InitialStores
  /\ local = [p \in Procs |-> Idle]
  /\ effect = [p \in Procs |-> NoEffect]
  /\ made = [u \in Users |-> {}]
  /\ now = 0
  /\ calls = 0
  /\ cache = Populated
  /\ tables = NoTables
  /\ data = "v1"
  /\ cache_hit_count = [p \in Procs |-> 0]
  /\ cache_miss_count = [p \in Procs |-> 0]
  /\ seed = [p \in Procs |-> 1]
  /\ req = [p \in Procs |-> ReqIdle]

NextClear ==
  \/ \E ok \in BOOLEAN : clear_search_cache(SeqProc, ok)
  \/ \E ok \in BOOLEAN : clear_semantic_cache(SeqProc, ok)
  \/ \E user_id \in OptionalIds, product_id \in OptionalIds, ok \in BOOLEAN :
       clear_recommendation_cache(SeqProc, user_id, product_id, ok)

SpecClear == InitClear /\ [][NextClear]_vars

\* C21: a clear that succeeds removes exactly the entries of the families it
\* names (of the one user or product, when it is given one) and leaves every
\* other entry and every cart as it was; a clear that fails removes nothing.
SearchFamilies == {"search", "category_search", "suggestions"}

SemanticFamilies == {"semantic_search", "more_like_this", "hybrid_search"}

ProductFamilies == {"similar_products", "also_bought", "bought_together"}

Subject(k) == IF Len(k.text) > 1 THEN Some(k.text[1].s) ELSE None

C21_Targeted(r, k) ==
  IF r.op = "clear_search_cache" THEN k.family \in SearchFamilies
  ELSE IF r.op = "clear_semantic_cache" THEN k.family \in SemanticFamilies
  ELSE IF r.user_id = None /\ r.product_id = None
  THEN k.family \in ProductFamilies \cup {"personalized", "trending_products"}
  ELSE \/ r.user_id # None /\ k.family = "personalized" /\ Subject(k) = r.user_id
       \/ r.product_id # None /\ k.family \in ProductFamilies /\ Subject(k) = r.product_id

C21_ClearStep ==
  \A p \in Procs :
    req'[p].op \in {"clear_search_cache", "clear_semantic_cache", "clear_recommendation_cache"}
      => /\ carts' = carts
         /\ \A k \in DOMAIN cache' : k \in DOMAIN cache /\ cache'[k] = cache[k]
         /\ \A k \in DOMAIN cache :
              k \notin DOMAIN cache' <=> req'[p].success /\ C21_Targeted(req'[p], k)

Lower(c) == IF c = "R" THEN "r" ELSE IF c = "M" THEN "m" ELSE c

LowerText(t) == [i \in 1 .. Len(t) |-> Lower(t[i])]

RECURSIVE Like(_, _)
\* text LIKE pattern: "%" stands for any run of characters, "_" for any one
Like(pattern, text) ==
  IF pattern = <<>> THEN text = <<>>
  ELSE IF Head(pattern) = "%"
  THEN Like(Tail(pattern), text) \/ (text # <<>> /\ Like(pattern, Tail(text)))
  ELSE /\ text # <<>>
       /\ Head(pattern) = "_" \/ Head(pattern) = Head(text)
       /\ Like(Tail(pattern), Tail(text))

\* text ILIKE pattern
ILike(pattern, text) == Like(LowerText(pattern), LowerText(text))

\* f"%{query}%"
like_query(query) == <<"%">> \o query \o <<"%">>

\* the characters the text-search parser takes as separators
IsSeparator(c) == c \in {" ", "_", "%", ","}

RECURSIVE Words(_, _)
\* the words of a text; word is the word being read
Words(t, word) ==
  IF t = <<>> THEN (IF word = <<>> THEN {} ELSE {word})
  ELSE IF IsSeparator(Head(t))
  THEN (IF word = <<>> THEN {} ELSE {word}) \cup Words(Tail(t), <<>>)
  ELSE Words(Tail(t), Append(word, Head(t)))

\* the english stemmer, as far as the plural ending
Stem(w) == IF Len(w) > 2 /\ w[Len(w)] = "s" THEN SubSeq(w, 1, Len(w) - 1) ELSE w

\* the lexemes to_tsvector('english', t) and plainto_tsquery('english', t) hold
Lexemes(t) == {Stem(w) : w \in Words(LowerText(t), <<>>)}

\* to_tsvector(document) @@ plainto_tsquery(query): every lexeme of the query
\* is in the document; a query without lexemes matches nothing
TsMatch(document, query) == Lexemes(query) # {} /\ Lexemes(query) \subseteq Lexemes(document)

\* p.name || ' ' || p.description || ' ' || COALESCE(p.tags, '')
Document(row) == row.name \o <<" ">> \o row.description \o <<" ">> \o row.tags

\* ------------------------------------------------------ search_products, the queries
\* the rows of a set in the order of a strict total order
OrderBy(S, Before(_, _)) ==
  [i \in 1 .. Cardinality(S) |->
     CHOOSE x \in S : Cardinality({y \in S : Before(y, x)}) = i - 1]

\* LIMIT limit OFFSET offset
Page(rows, limit, offset) ==
  SubSeq(rows, offset + 1, IF offset + limit < Len(rows) THEN offset + limit ELSE Len(rows))

\* FROM products p JOIN categories c ON p.category = c.name
Joined(t) == {row \in t.products : row.category \in t.categories}

\* the conditions search_products collects; Python takes "" and None as false
TextCondition(row, query) ==
  \/ ILike(like_query(query), row.name)
  \/ ILike(like_query(query), row.description)
  \/ ILike(like_query(query), row.tags)
  \/ TsMatch(Document(row), query)

Where(row, a) ==
  /\ a.query # <<>> => TextCondition(row, a.query)
  /\ a.category # None => row.category = Val(a.category)
  /\ a.min_price # None => row.price >= Val(a.min_price)
  /\ a.max_price # None => row.price <= Val(a.max_price)

\* the values params holds
ParamCount(a) ==
  (IF a.query # <<>> THEN 4 ELSE 0) + (IF a.category # None THEN 1 ELSE 0)
  + (IF a.min_price # None THEN 1 ELSE 0) + (IF a.max_price # None THEN 1 ELSE 0)

\* the "%s" of main_sql: three in the CASE, those of the WHERE clause, LIMIT and OFFSET
MainPlaceholders(a) == 3 + ParamCount(a) + 2

\* the values main_params holds
MainParams(a) == (IF a.query # <<>> THEN 3 ELSE 0) + ParamCount(a) + 2

\* the CASE of main_sql
relevance_score(row, query) ==
  IF ILike(like_query(query), row.name) THEN 3
  ELSE IF ILike(like_query(query), row.description) THEN 2
  ELSE IF ILike(like_query(query), row.tags) THEN 1
  ELSE 0

\* ORDER BY relevance_score DESC, p.created_at DESC; rows the two keys leave
\* tied come in the order of their ids
MainOrder(x, y, query) ==
  LET rx == relevance_score(x, query)
      ry == relevance_score(y, query)
  IN \/ rx > ry
     \/ rx = ry /\ x.created_at > y.created_at
     \/ rx = ry /\ x.created_at = y.created_at /\ x.n < y.n

\* count_sql
CountQuery(t, a) == Cardinality({row \in Joined(t) : Where(row, a)})

\* main_sql
MainQuery(t, a) ==
  LET Before(x, y) == MainOrder(x, y, a.query)
  IN Page(OrderBy({row \in Joined(t) : Where(row, a)}, Before), a.limit, a.offset)

Ids(rows) == [i \in 1 .. Len(rows) |-> rows[i].id]

\* the arguments as the filters dict and the key search_products makes of them
ArgKey(a) ==
  _generate_cache_key(a.query,
    SearchFilters(IF a.category = None THEN Null("category") ELSE Str("category", Val(a.category)),
                  IF a.min_price = None THEN Null("min_price") ELSE Num("min_price", Val(a.min_price)),
                  IF a.max_price = None THEN Null("max_price") ELSE Num("max_price", Val(a.max_price)),
                  a.limit, a.offset))

\* search_products with stores that answer: the lookup and, on a miss, the two
\* queries and the write; cursor.execute raises when main_sql has more "%s"
\* than main_params has values
search_products(p, a) ==
  /\ Ready(p)
  /\ calls' = calls + 1
  /\ LET r == [ReqIdle EXCEPT !.pc = "done", !.op = "search_products", !.args = Some(a),
                              !.cache_key = Some(ArgKey(a)), !.counted = TRUE]
         cached_result == get_json(cache, ArgKey(a))
         result == [kind |-> "dict", rows |-> Ids(MainQuery(tables, a)),
                    total_count |-> CountQuery(tables, a)]
     IN IF cached_result # None /\ Truthy(Val(cached_result))
        THEN /\ cache_hit_count' = [cache_hit_count EXCEPT ![p] = @ + 1]
             /\ req' = [req EXCEPT ![p] =
                  [r EXCEPT !.result = cached_result, !.found = cached_result,
                            !.cache_hit = TRUE,
                            !.rate = Some(get_cache_hit_rate(cache_hit_count[p] + 1,
                                                             cache_miss_count[p]))]]
             /\ UNCHANGED <<cache, cache_miss_count>>
        ELSE /\ cache_miss_count' = [cache_miss_count EXCEPT ![p] = @ + 1]
             /\ UNCHANGED cache_hit_count
             /\ IF MainPlaceholders(a) # MainParams(a)
                THEN /\ req' = [req EXCEPT ![p] = [r EXCEPT !.queried = TRUE, !.raised = TRUE]]
                     /\ UNCHANGED cache
                ELSE /\ cache' = set_json(cache, ArgKey(a), result, CacheTtl("search_products"))
                     /\ req' = [req EXCEPT ![p] =
                          [r EXCEPT !.queried = TRUE, !.wrote = TRUE, !.result = Some(result),
                                    !.rate = Some(get_cache_hit_rate(cache_hit_count[p],
                                                                     cache_miss_count[p] + 1))]]
  /\ UNCHANGED <<CartVars, tables, now, data, seed>>

\* the products the searches run over; created_at counts the days
Product(n, id, pname, description, tags, category, pprice, pstock, created_at) ==
  [n |-> n, id |-> id, name |-> pname, description |-> description, tags |-> tags,
   category |-> category, price |-> pprice, stock |-> pstock, created_at |-> created_at]

Products ==
  {Product(1, "P1", <<"R", "e", "d">>, <<"m", "u", "g">>, <<"s">>, "home", 10, 2, 1),
   Product(2, "P2", <<"m", "u", "g">>, <<"r", "e", "d">>, <<"m">>, "home", 20, 0, 2),
   Product(3, "P3", <<"m", "u", "g", "s">>, <<"m">>, <<"r", "e", "d">>, "garden", 30, 1, 3),
   Product(4, "P4", <<"r", "_", "d">>, <<"m">>, <<"m">>, "garden", 10, 1, 0)}

MinProducts == 3

\* the catalogs: every choice of at least MinProducts of the products
Catalogs ==
  {[NoTables EXCEPT !.products = S, !.categories = {"home", "garden"}] :
     S \in {T \in SUBSET Products : Cardinality(T) >= MinProducts}}

Queries == {<<>>, <<"r", "e", "d">>, <<"r", "e", "d", "s">>, <<"r", "_", "d">>}

SearchArguments ==
  [query : Queries, category : {None, Some("home")}, min_price : {None, Some(20)},
   max_price : {None, Some(20)}, limit : {1, 2}, offset : {0, 1}]

InitSearch ==
  /\ CartQuiet
  /\ tables \in Catalogs
  /\ now = 0
  /\ calls = 0
  /\ cache = EmptyStore
  /\ data = "v1"
  /\ cache_hit_count = [p \in Procs |-> 0]
  /\ cache_miss_count = [p \in Procs |-> 0]
  /\ seed = [p \in Procs |-> 1]
  /\ req = [p \in Procs |-> ReqIdle]

NextSearch == \E a \in SearchArguments : search_products(SeqProc, a)

SpecSearch == InitSearch /\ [][NextSearch]_vars

\* what the three claims on search_products say of a call that missed
Missed(p) == req[p].pc = "done" /\ req[p].op = "search_products" /\ ~req[p].cache_hit

\* the query is a substring of the text, whatever the case of the letters
Contains(text, query) ==
  \E i \in 0 .. Len(text) - Len(query) :
    LowerText(SubSeq(text, i + 1, i + Len(query))) = LowerText(query)

\* the products that satisfy the filters of a call
Filtered(a) ==
  {row \in tables.products :
     /\ a.category # None => row.category = Val(a.category)
     /\ a.min_price # None => row.price >= Val(a.min_price)
     /\ a.max_price # None => row.price <= Val(a.max_price)}

RowOf(id) == CHOOSE row \in tables.products : row.id = id

\* C22: a search with an empty query that missed the cache raises nothing and
\* returns the products that satisfy the filters, limit of them from offset on.
C22_EmptyQuery ==
  \A p \in Procs :
    Missed(p) /\ Val(req[p].args).query = <<>> =>
      LET a == Val(req[p].args)
      IN /\ ~req[p].raised
         /\ req[p].result # None
         /\ Val(req[p].result).total_count = Cardinality(Filtered(a))
         /\ Len(Val(req[p].result).rows) <= a.limit
         /\ \A i \in 1 .. Len(Val(req[p].result).rows) :
              RowOf(Val(req[p].result).rows[i]) \in Filtered(a)

\* C23: in the page of a search with a query that missed the cache, a product
\* whose name contains the query comes before one whose first match is in the
\* description, that before one matched in the tags only, that before one with
\* no substring match; products of the same grade come newest first.
Grade(row, query) ==
  IF Contains(row.name, query) THEN 3
  ELSE IF Contains(row.description, query) THEN 2
  ELSE IF Contains(row.tags, query) THEN 1
  ELSE 0

C23_LexicalRanking ==
  \A p \in Procs :
    Missed(p) /\ Val(req[p].args).query # <<>> /\ req[p].result # None =>
      LET query == Val(req[p].args).query
          rows == Val(req[p].result).rows
      IN \A i, j \in 1 .. Len(rows) :
           i < j =>
             LET x == RowOf(rows[i])
                 y == RowOf(rows[j])
             IN \/ Grade(x, query) > Grade(y, query)
                \/ Grade(x, query) = Grade(y, query) /\ x.created_at >= y.created_at

\* C24: a search that missed the cache returns as total_count the number of
\* products that match the query and the filters, whatever limit and offset
\* are, and a page of at most limit products.
Matching(a) ==
  {row \in Filtered(a) :
     a.query # <<>> =>
       \/ Contains(row.name, a.query)
       \/ Contains(row.description, a.query)
       \/ Contains(row.tags, a.query)
       \/ Lexemes(a.query) # {} /\ Lexemes(a.query) \subseteq Lexemes(Document(row))}

C24_TotalCount ==
  \A p \in Procs :
    Missed(p) =>
      /\ req[p].result # None
      /\ Val(req[p].result).total_count = Cardinality(Matching(Val(req[p].args)))
      /\ Len(Val(req[p].result).rows) <= Val(req[p].args).limit

\* --------------------------------------------------------- vector searches
\* similarity_score, text_rank and the scores made of them are held in
\* thousandths, semantic_weight in tenths, hybrid_score in ten-thousandths
Unit == 1000

\* the embeddings are vectors of the plane, all of this length
EmbeddingNorm == 5

Dot(u, v) == u[1] * v[1] + u[2] * v[2]

\* u <=> v, the cosine distance of pgvector
CosineDistance(u, v) == Unit - (Unit * Dot(u, v)) \div (EmbeddingNorm * EmbeddingNorm)

\* 1 - (pe.embedding <=> %s::vector)
similarity_score(u, v) == Unit - CosineDistance(u, v)

\* the row product_embeddings holds for each product that has one
Embedding ==
  [id \in {"P1", "P2", "P3", "P4"} |->
     IF id = "P1" THEN <<5, 0>> ELSE IF id = "P2" THEN <<4, 3>>
     ELSE IF id = "P3" THEN <<3, 4>> ELSE <<0, 5>>]

VectorQueries == {<<"r", "e", "d">>, <<"m">>}

\* self.model.encode(query)
encode(query) == IF query = <<"r", "e", "d">> THEN <<5, 0>> ELSE <<3, 4>>

\* FROM products p JOIN product_embeddings pe ON p.id = pe.product_id
\* JOIN categories c ON p.category = c.name
Embedded(t) ==
  {[id |-> row.id, stock |-> row.stock, embedding |-> pe.embedding] :
     <<row, pe>> \in {x \in Joined(t) \X t.embeddings : x[1].id = x[2].product_id}}

\* the sequences that hold each member of S once with Key never decreasing:
\* the orders ORDER BY Key may return the rows in
Ascending(S, Key(_)) ==
  {rows \in [1 .. Cardinality(S) -> S] :
     \A i, j \in 1 .. Cardinality(S) :
       i < j => rows[i] # rows[j] /\ Key(rows[i]) <= Key(rows[j])}

\* the rows of the two vector queries as the caller receives them
Scored(rows, target) ==
  [i \in 1 .. Len(rows) |->
     [id |-> rows[i].id, similarity_score |-> similarity_score(rows[i].embedding, target)]]

\* semantic_search: WHERE p.stock > 0 ORDER BY pe.embedding <=> %s::vector
SemanticQuery(t, target) ==
  Ascending({x \in Embedded(t) : x.stock > 0},
            LAMBDA x : CosineDistance(x.embedding, target))

\* (mutant) the self-exclusion is missing
MoreLikeThisQueryWithSelf(t, product_id, target) ==
  Ascending({x \in Embedded(t) : x.stock > 0},
            LAMBDA x : CosineDistance(x.embedding, target))

\* more_like_this: WHERE p.id != %s AND p.stock > 0 ORDER BY pe.embedding <=> %s::vector
MoreLikeThisQuery(t, product_id, target) ==
  Ascending({x \in Embedded(t) : x.id # product_id /\ x.stock > 0},
            LAMBDA x : CosineDistance(x.embedding, target))

\* get_similar_products: WHERE p.id != %s ORDER BY pe.embedding <=> %s::vector
SimilarProductsQuery(t, product_id, target) ==
  Ascending({x \in Embedded(t) : x.id # product_id},
            LAMBDA x : CosineDistance(x.embedding, target))

\* (mutant) the lookup of the embedding takes any row of the table
AnyEmbedding(t, product_id) == t.embeddings

\* SELECT pe.embedding FROM product_embeddings pe WHERE pe.product_id = %s
EmbeddingOf(t, product_id) == {pe \in t.embeddings : pe.product_id = product_id}

List(rows) == [kind |-> "list", rows |-> rows]

\* where a call fails: nowhere, in the embedding function, in a query of the
\* relational store, in the write of the cache or in the commit
SemanticFailures == {"none", "encode", "query", "write", "commit"}
StoreFailures == {"none", "query", "write", "commit"}

\* semantic_search from its lookup to its return, over cache c with the rows
\* in the order the store returns them: the cache it leaves, the list it
\* returns, and whether it computed it
SemanticSearch(c, sd, query, limit, rows, fail) ==
  LET cache_key == CacheKey("semantic_search", sd, query, limit, 0)
      cached_result == get_json(c, cache_key)
      results == List(Page(Scored(rows, encode(query)), limit, 0))
      written == set_json(c, cache_key, results, CacheTtl("semantic_search"))
  IN IF cached_result # None /\ Truthy(Val(cached_result))
     THEN [cache |-> c, value |-> Val(cached_result), hit |-> TRUE, failed |-> FALSE]
     ELSE IF fail \in {"encode", "query", "write"}
     THEN [cache |-> c, value |-> NoRows, hit |-> FALSE, failed |-> TRUE]
     ELSE IF fail = "commit"
     THEN [cache |-> written, value |-> NoRows, hit |-> FALSE, failed |-> TRUE]
     ELSE [cache |-> written, value |-> results, hit |-> FALSE, failed |-> FALSE]

\* the frame of a call that ran from its lookup to its return
Ran(op, a, key, out) ==
  [ReqIdle EXCEPT !.pc = "done", !.op = op, !.args = Some(a), !.cache_key = Some(key),
                  !.result = Some(out.value), !.cache_hit = out.hit,
                  !.found = IF out.hit THEN Some(out.value) ELSE None,
                  !.queried = ~out.hit,
                  !.computed = Some([failed |-> out.failed]),
                  !.wrote = ~out.hit /\ out.cache # cache]

semantic_search(p, query, limit, fail) ==
  /\ Ready(p)
  /\ calls' = calls + 1
  /\ \E rows \in SemanticQuery(tables, encode(query)) :
       LET out == SemanticSearch(cache, seed[p], query, limit, rows, fail)
           a == [query |-> query, limit |-> limit, fail |-> fail]
       IN /\ cache' = out.cache
          /\ req' = [req EXCEPT ![p] =
               Ran("semantic_search", a, CacheKey("semantic_search", seed[p], query, limit, 0), out)]
  /\ UNCHANGED <<CartVars, tables, now, data, cache_hit_count, cache_miss_count, seed>>

\* more_like_this and get_similar_products from the lookup to the return; the
\* product without an embedding gets [] before the second query
ByEmbedding(c, t, op, product_id, limit, rows, fail) ==
  LET cache_key == CacheKey(op, 0, product_id, limit, 0)
      cached_result == get_json(c, cache_key)
      result == EmbeddingOf(t, product_id)
      target_embedding == (CHOOSE pe \in result : TRUE).embedding
      results == List(Page(Scored(rows, target_embedding), limit, 0))
      written == set_json(c, cache_key, results, CacheTtl(op))
  IN IF cached_result # None /\ Truthy(Val(cached_result))
     THEN [cache |-> c, value |-> Val(cached_result), hit |-> TRUE, failed |-> FALSE]
     ELSE IF fail = "query"
     THEN [cache |-> c, value |-> NoRows, hit |-> FALSE, failed |-> TRUE]
     ELSE IF result = {}
     THEN [cache |-> c, value |-> NoRows, hit |-> FALSE, failed |-> fail = "commit"]
     ELSE IF fail = "write"
     THEN [cache |-> c, value |-> NoRows, hit |-> FALSE, failed |-> TRUE]
     ELSE IF fail = "commit"
     THEN [cache |-> written, value |-> NoRows, hit |-> FALSE, failed |-> TRUE]
     ELSE [cache |-> written, value |-> results, hit |-> FALSE, failed |-> FALSE]

\* the rows the second query may return; none when there is no target
Neighbours(t, op, product_id) ==
  IF EmbeddingOf(t, product_id) = {} THEN {<<>>}
  ELSE IF op = "more_like_this"
  THEN MoreLikeThisQuery(t, product_id, (CHOOSE pe \in EmbeddingOf(t, product_id) : TRUE).embedding)
  ELSE SimilarProductsQuery(t, product_id, (CHOOSE pe \in EmbeddingOf(t, product_id) : TRUE).embedding)

SimilarTo(p, op, product_id, limit, fail) ==
  /\ Ready(p)
  /\ calls' = calls + 1
  /\ \E rows \in Neighbours(tables, op, product_id) :
       LET out == ByEmbedding(cache, tables, op, product_id, limit, rows, fail)
           a == [product_id |-> product_id, limit |-> limit, fail |-> fail]
       IN /\ cache' = out.cache
          /\ req' = [req EXCEPT ![p] =
               [Ran(op, a, CacheKey(op, 0, product_id, limit, 0), out)
                  EXCEPT !.product_id = Some(product_id), !.raised = FALSE]]
  /\ UNCHANGED <<CartVars, tables, now, data, cache_hit_count, cache_miss_count, seed>>

more_like_this(p, product_id, limit, fail) ==
  SimilarTo(p, "more_like_this", product_id, limit, fail)

get_similar_products(p, product_id, limit, fail) ==
  SimilarTo(p, "get_similar_products", product_id, limit, fail)


\* ----------------------------------------------------------- hybrid_search
RECURSIVE WordList(_, _)
\* the words of a text in the order they stand in; word is the word being read
WordList(t, word) ==
  IF t = <<>> THEN (IF word = <<>> THEN <<>> ELSE <<word>>)
  ELSE IF IsSeparator(Head(t))
  THEN (IF word = <<>> THEN <<>> ELSE <<word>>) \o WordList(Tail(t), <<>>)
  ELSE WordList(Tail(t), Append(word, Head(t)))

\* how often the lexemes of the query stand in the document
Occurrences(document, query) ==
  LET words == WordList(LowerText(document), <<>>)
      lexemes == Lexemes(query)
  IN Cardinality({i \in 1 .. Len(words) : Stem(words[i]) \in lexemes})

\* ts_rank(to_tsvector(document), plainto_tsquery(query)) for a query of one
\* word: 0.061 for one occurrence, 0.076 for two, 0.083 for more
ts_rank(document, query) ==
  LET n == Occurrences(document, query)
  IN IF n = 0 THEN 0 ELSE IF n = 1 THEN 61 ELSE IF n = 2 THEN 76 ELSE 83

\* the text query of hybrid_search: WHERE ... @@ ... AND p.stock > 0
\* ORDER BY text_rank DESC
TextQuery(t, query) ==
  LET rows == {[id |-> row.id, text_rank |-> ts_rank(Document(row), query)] :
                 row \in {x \in Joined(t) : TsMatch(Document(x), query) /\ x.stock > 0}}
  IN Ascending(rows, LAMBDA x : 0 - x.text_rank)

IdsOf(rows) == {rows[i].id : i \in 1 .. Len(rows)}

\* the score a list gives an id under a field, 0 when the id is not in it
ScoreIn(rows, id, Field(_)) ==
  IF id \in IdsOf(rows) THEN Field(rows[CHOOSE i \in 1 .. Len(rows) : rows[i].id = id]) ELSE 0

\* combined_results.values(): the semantic results in their order, then the
\* text results that are not among them; semantic_weight w is in tenths
Combined(semantic_results, text_results, w) ==
  LET text_only == SelectSeq(text_results, LAMBDA x : x.id \notin IdsOf(semantic_results))
  IN [i \in 1 .. Len(semantic_results) |->
        LET text_score == ScoreIn(text_results, semantic_results[i].id, LAMBDA x : x.text_rank)
        IN [id |-> semantic_results[i].id,
            semantic_score |-> semantic_results[i].similarity_score,
            text_score |-> text_score,
            hybrid_score |-> semantic_results[i].similarity_score * w + text_score * (10 - w)]]
     \o
     [i \in 1 .. Len(text_only) |->
        [id |-> text_only[i].id, semantic_score |-> 0, text_score |-> text_only[i].text_rank,
         hybrid_score |-> text_only[i].text_rank * (10 - w)]]

\* (mutant) the combined results are left in the order they were combined in
Unsorted(rows) == rows

\* sorted(..., key=hybrid_score, reverse=True): stable, equal scores keep their order
sorted(rows) ==
  [k \in 1 .. Len(rows) |->
     rows[CHOOSE i \in 1 .. Len(rows) :
            Cardinality({j \in 1 .. Len(rows) :
                           \/ rows[j].hybrid_score > rows[i].hybrid_score
                           \/ rows[j].hybrid_score = rows[i].hybrid_score /\ j < i}) = k - 1]]

\* where the text query of hybrid_search and what follows it fail
HybridFailures == {"none", "query", "write"}

\* hybrid_search from its lookup to its return; inner is where the semantic
\* sub-search fails, outer where hybrid_search itself does
hybrid_search(p, query, limit, w, inner, outer) ==
  /\ Ready(p)
  /\ calls' = calls + 1
  /\ \E srows \in SemanticQuery(tables, encode(query)), trows \in TextQuery(tables, query) :
       LET cache_key == CacheKey("hybrid_search", seed[p], query, limit, w)
           cached_result == get_json(cache, cache_key)
           sub == SemanticSearch(cache, seed[p], query, limit * 2, srows, inner)
           semantic_results == sub.value.rows
           text_results == Page(trows, limit * 2, 0)
           final_results ==
             List(Page(sorted(Combined(semantic_results, text_results, w)), limit, 0))
           a == [query |-> query, limit |-> limit, semantic_weight |-> w,
                 inner |-> inner, outer |-> outer]
           r == [ReqIdle EXCEPT !.pc = "done", !.op = "hybrid_search", !.args = Some(a),
                                !.cache_key = Some(cache_key)]
       IN IF cached_result # None /\ Truthy(Val(cached_result))
          THEN /\ req' = [req EXCEPT ![p] =
                    [r EXCEPT !.result = cached_result, !.found = cached_result,
                              !.cache_hit = TRUE]]
               /\ UNCHANGED cache
          ELSE IF outer = "query"
          THEN /\ req' = [req EXCEPT ![p] =
                    [r EXCEPT !.result = Some(NoRows), !.queried = TRUE,
                              !.computed = Some([semantic |-> semantic_results,
                                                 text |-> <<>>, failed |-> sub.failed])]]
               /\ cache' = sub.cache
          ELSE /\ req' = [req EXCEPT ![p] =
                    [r EXCEPT !.result = IF outer = "write" THEN Some(NoRows)
                                         ELSE Some(final_results),
                              !.queried = TRUE, !.wrote = outer # "write",
                              !.computed = Some([semantic |-> semantic_results,
                                                 text |-> text_results,
                                                 failed |-> sub.failed])]]
               /\ cache' = IF outer = "write" THEN sub.cache
                           ELSE set_json(sub.cache, cache_key, final_results,
                                         CacheTtl("hybrid_search"))
  /\ UNCHANGED <<CartVars, tables, now, data, cache_hit_count, cache_miss_count, seed>>

\* the vector searches run over all the products, of which at most one has no embedding
VectorCatalogs ==
  {[NoTables EXCEPT !.products = Products, !.categories = {"home", "garden"},
                    !.embeddings = {[product_id |-> id, embedding |-> Embedding[id]] : id \in E}] :
     E \in {S \in SUBSET {row.id : row \in Products} : Cardinality(S) >= MinProducts}}

VectorLimits == {1, 2}

InitVector ==
  /\ CartQuiet
  /\ tables \in VectorCatalogs
  /\ now = 0
  /\ calls = 0
  /\ cache = EmptyStore
  /\ data = "v1"
  /\ cache_hit_count = [p \in Procs |-> 0]
  /\ cache_miss_count = [p \in Procs |-> 0]
  /\ seed = [p \in Procs |-> 1]
  /\ req = [p \in Procs |-> ReqIdle]

NextVector ==
  \/ \E query \in VectorQueries, limit \in VectorLimits, fail \in SemanticFailures :
       semantic_search(SeqProc, query, limit, fail)
  \/ \E id \in {row.id : row \in Products}, limit \in VectorLimits, fail \in StoreFailures :
       more_like_this(SeqProc, id, limit, fail)
  \/ \E id \in {row.id : row \in Products}, limit \in VectorLimits, fail \in StoreFailures :
       get_similar_products(SeqProc, id, limit, fail)
  \/ \E query \in VectorQueries, limit \in VectorLimits, w \in Weights,
        inner \in SemanticFailures, outer \in HybridFailures :
       hybrid_search(SeqProc, query, limit, w, inner, outer)

SpecVector == InitVector /\ [][NextVector]_vars


\* ------------------------------------------------ claims on the vector searches
\* a call that computed its answer
Computed(p, op) ==
  /\ req[p].pc = "done"
  /\ req[p].op = op
  /\ ~req[p].cache_hit
  /\ req[p].result # None

Answer(p) == Val(req[p].result).rows

Descending(rows, Field(_)) ==
  \A i, j \in 1 .. Len(rows) : i < j => Field(rows[i]) >= Field(rows[j])

\* C25: a result more_like_this(p, limit) computed holds neither p nor a product
\* whose stock is 0, a result semantic_search computed holds no product whose
\* stock is 0, and both hold at most limit products, each once, in descending
\* order of similarity.
C25_VectorExclusions ==
  \A p \in Procs :
    Computed(p, "more_like_this") \/ Computed(p, "semantic_search") =>
      /\ \A i \in 1 .. Len(Answer(p)) : RowOf(Answer(p)[i].id).stock > 0
      /\ req[p].op = "more_like_this" =>
           \A i \in 1 .. Len(Answer(p)) : Answer(p)[i].id # Val(req[p].args).product_id
      /\ Len(Answer(p)) <= Val(req[p].args).limit
      /\ Cardinality(IdsOf(Answer(p))) = Len(Answer(p))
      /\ Descending(Answer(p), LAMBDA x : x.similarity_score)

\* more_like_this("P1", 2) answered with two products while P2, the nearest
\* to P1 and out of stock, has its embedding; a semantic_search did the same
C25_Witness ==
  /\ Computed(SeqProc, "more_like_this")
  /\ Val(req[SeqProc].args).product_id = "P1"
  /\ Len(Answer(SeqProc)) = 2
  /\ \E pe \in tables.embeddings : pe.product_id = "P2"
  /\ \E k \in DOMAIN cache : k.family = "semantic_search" /\ Len(cache[k].items.rows) = 2


\* C26: more_like_this and get_similar_products, asked for a product that has
\* no stored embedding, return the empty list, raise nothing and write nothing
\* to the cache; when the stores answer they get there without any exception.
C26_MissingEmbedding ==
  \A p \in Procs :
    /\ Computed(p, "more_like_this") \/ Computed(p, "get_similar_products")
    /\ \A pe \in tables.embeddings : pe.product_id # Val(req[p].args).product_id
    => /\ req[p].result = Some(NoRows)
       /\ ~req[p].raised
       /\ ~req[p].wrote
       /\ Val(req[p].cache_key) \notin DOMAIN cache
       /\ Val(req[p].args).fail = "none" => ~Val(req[p].computed).failed

\* get_similar_products was asked, with stores that answer, for a product of
\* the catalog whose embedding is missing while the other products have theirs
C26_Witness ==
  /\ Computed(SeqProc, "get_similar_products")
  /\ Val(req[SeqProc].args).fail = "none"
  /\ Val(req[SeqProc].args).product_id \in {row.id : row \in tables.products}
  /\ \A pe \in tables.embeddings : pe.product_id # Val(req[SeqProc].args).product_id
  /\ tables.embeddings # {}
  /\ req[SeqProc].result = Some(NoRows)


\* a hybrid_search that missed and met no failure of its own
Fused(p) == Computed(p, "hybrid_search") /\ Val(req[p].args).outer = "none"

Candidates(p) == Val(req[p].computed)

\* the score of an id on one side, 0 when the side does not hold it
Side(rows, id, Field(_)) ==
  IF \E i \in 1 .. Len(rows) : rows[i].id = id
  THEN Field(rows[CHOOSE i \in 1 .. Len(rows) : rows[i].id = id])
  ELSE 0

\* semantic_score x w + text_score x (1 - w), w in tenths
Expected(p, id) ==
  Side(Candidates(p).semantic, id, LAMBDA x : x.similarity_score) * Val(req[p].args).semantic_weight
  + Side(Candidates(p).text, id, LAMBDA x : x.text_rank) * (10 - Val(req[p].args).semantic_weight)

AtMost(n, m) == IF n < m THEN n ELSE m

\* C27: hybrid_search(query, limit, w) takes up to 2 x limit candidates from the
\* semantic and from the text sub-search, and returns ids of their union, each
\* once, each with hybrid_score = semantic_score x w + text_score x (1 - w) and
\* 0 for the side it is missing from, in descending order of hybrid_score, the
\* limit best of the union.
C27_HybridFusion ==
  \A p \in Procs :
    Fused(p) =>
      LET a == Val(req[p].args)
          semantic == Candidates(p).semantic
          text == Candidates(p).text
          union == IdsOf(semantic) \cup IdsOf(text)
      IN /\ ~Candidates(p).failed =>
              Len(semantic) = AtMost(2 * a.limit,
                                     Cardinality({pe \in tables.embeddings :
                                                    RowOf(pe.product_id).stock > 0}))
         /\ Len(text) = AtMost(2 * a.limit,
                               Cardinality({row \in tables.products :
                                              /\ row.stock > 0
                                              /\ Lexemes(a.query) \subseteq Lexemes(Document(row))}))
         /\ IdsOf(Answer(p)) \subseteq union
         /\ Cardinality(IdsOf(Answer(p))) = Len(Answer(p))
         /\ Len(Answer(p)) = AtMost(a.limit, Cardinality(union))
         /\ \A i \in 1 .. Len(Answer(p)) :
              /\ Answer(p)[i].hybrid_score = Expected(p, Answer(p)[i].id)
              /\ \A id \in union \ IdsOf(Answer(p)) :
                   Expected(p, id) <= Answer(p)[i].hybrid_score
         /\ Descending(Answer(p), LAMBDA x : x.hybrid_score)

\* a fusion that was cut to limit, of an id both sides scored, an id only the
\* semantic side held and an id only the text side held
C27_Witness ==
  /\ Fused(SeqProc)
  /\ ~Candidates(SeqProc).failed
  /\ LET semantic == Candidates(SeqProc).semantic
         text == Candidates(SeqProc).text
     IN /\ IdsOf(semantic) \ IdsOf(text) # {}
        /\ IdsOf(text) \ IdsOf(semantic) # {}
        /\ \E id \in IdsOf(semantic) \cap IdsOf(text) :
             /\ Side(semantic, id, LAMBDA x : x.similarity_score) > 0
             /\ \E i \in 1 .. Len(Answer(SeqProc)) :
                  /\ Answer(SeqProc)[i].id = id
                  /\ Answer(SeqProc)[i].hybrid_score > 0
        /\ Cardinality(IdsOf(semantic) \cup IdsOf(text)) > Len(Answer(SeqProc))
        /\ Len(Answer(SeqProc)) = 2


\* C28: when a sub-search of hybrid_search fails (the embedding function or the
\* relational store inside the semantic sub-search, or the text query),
\* hybrid_search returns the empty list and writes nothing to the cache.
C28_HybridFailSoft ==
  \A p \in Procs :
    /\ Computed(p, "hybrid_search")
    /\ Candidates(p).failed \/ Val(req[p].args).outer = "query"
    => /\ req[p].result = Some(NoRows)
       /\ ~req[p].wrote


\* ------------------------------------------------------ the purchase graph
\* a PURCHASED relationship; add_purchase creates one for each purchase, so a
\* user and a product may be joined by several, told apart by their date
Purchased(user, product, date) == [user |-> user, product |-> product, date |-> date]

\* the relationships a graph is made of
Purchases ==
  {Purchased("u1", "P1", 1), Purchased("u1", "P2", 1), Purchased("u1", "P2", 2),
   Purchased("u1", "P3", 1),
   Purchased("u2", "P1", 1), Purchased("u2", "P3", 1)}

GraphProducts == {"P1", "P2", "P3"}

\* MATCH (target:Product {id: $product_id})<-[:PURCHASED]-(user:User)-[:PURCHASED]->(rec:Product)
\* WHERE rec.id <> target.id: one row for each pair of relationships
CoPurchaseRows(t, product_id) ==
  {x \in t.purchases \X t.purchases :
     /\ x[1].product = product_id
     /\ x[2].user = x[1].user
     /\ x[2] # x[1]
     /\ x[2].product # product_id}

\* WITH rec, COUNT(user) as purchase_count: the rows of the group
CountUser(rows, rec) == Cardinality({x \in rows : x[2].product = rec})

\* WITH rec, COUNT(user) as purchase_count ORDER BY purchase_count DESC
CoPurchaseQuery(t, product_id) ==
  LET rows == CoPurchaseRows(t, product_id)
      groups == {[id |-> rec, purchase_count |-> CountUser(rows, rec)] :
                   rec \in {x[2].product : x \in rows}}
  IN Ascending(groups, LAMBDA g : 0 - g.purchase_count)

\* created_at as "SELECT p.*" returns it: a datetime object
Datetime(day) == [kind |-> "datetime", day |-> day]

\* _get_product_details for each record: the record with the row of its
\* product; the records whose product the relational store does not hold, and
\* those whose lookup raises (lost), get None and are left out
WithDetails(t, records, lost) ==
  LET found == SelectSeq(records,
                 LAMBDA g : g.id \notin lost /\ g.id \in {row.id : row \in Joined(t)})
  IN [i \in 1 .. Len(found) |->
        [x \in DOMAIN found[i] \cup {"created_at"} |->
           IF x = "created_at"
           THEN Datetime((CHOOSE row \in Joined(t) : row.id = found[i].id).created_at)
           ELSE found[i][x]]]

\* json.dumps(value) of set_json: raises TypeError on a datetime object
Serializable(rows) == \A i \in 1 .. Len(rows) : rows[i].created_at.kind # "datetime"

\* where a recommendation fails: nowhere, in the graph query, in the lookup of
\* the details of the first record, in the cache write
GraphFailures == {"none", "query", "join", "write"}

\* the ids whose lookup raises
Lost(records, fail) == IF fail = "join" /\ records # <<>> THEN {records[1].id} ELSE {}

\* get_also_bought_recommendations and get_frequently_bought_together from the
\* lookup to the return
CoPurchase(p, op, product_id, limit, fail) ==
  /\ Ready(p)
  /\ calls' = calls + 1
  /\ \E records \in CoPurchaseQuery(tables, product_id) :
       LET cache_key == CacheKey(op, 0, product_id, limit, 0)
           cached_result == get_json(cache, cache_key)
           page == Page(records, limit, 0)
           recommendations == List(WithDetails(tables, page, Lost(page, fail)))
           a == [product_id |-> product_id, limit |-> limit, fail |-> fail]
           r == [ReqIdle EXCEPT !.pc = "done", !.op = op, !.args = Some(a),
                                !.cache_key = Some(cache_key),
                                !.product_id = Some(product_id),
                                !.computed = Some([page |-> page,
                                                   joined |-> recommendations.rows])]
       IN IF cached_result # None /\ Truthy(Val(cached_result))
          THEN /\ req' = [req EXCEPT ![p] =
                    [r EXCEPT !.result = cached_result, !.found = cached_result,
                              !.cache_hit = TRUE]]
               /\ UNCHANGED cache
          ELSE IF fail \in {"query", "write"} \/ ~Serializable(recommendations.rows)
          THEN /\ req' = [req EXCEPT ![p] =
                    [r EXCEPT !.result = Some(NoRows), !.queried = TRUE]]
               /\ UNCHANGED cache
          ELSE /\ req' = [req EXCEPT ![p] =
                    [r EXCEPT !.result = Some(recommendations), !.queried = TRUE,
                              !.wrote = TRUE]]
               /\ cache' = set_json(cache, cache_key, recommendations, CacheTtl(op))
  /\ UNCHANGED <<CartVars, tables, now, data, cache_hit_count, cache_miss_count, seed>>

get_also_bought_recommendations(p, product_id, limit, fail) ==
  CoPurchase(p, "get_also_bought_recommendations", product_id, limit, fail)

get_frequently_bought_together(p, product_id, limit, fail) ==
  CoPurchase(p, "get_frequently_bought_together", product_id, limit, fail)


\* -------------------------------------- get_personalized_recommendations
\* the variables the two WITH clauses of the query carry on; a WITH ends the
\* scope of every variable it does not list
FirstWith == {"user", "purchased_products"}
SecondWith == {"user", "other_user", "common_purchases"}

\* the variables the second and the third MATCH bind, and those they and
\* their WHERE name
SecondMatchBinds == {"other_user", "product"}
SecondMatchNames == {"other_user", "product", "user", "purchased_products"}
ThirdMatchBinds == {"rec"}
ThirdMatchNames == {"other_user", "rec", "purchased_products"}

\* the query is accepted when each part names variables in scope only
Compiles ==
  /\ SecondMatchNames \subseteq FirstWith \cup SecondMatchBinds
  /\ SecondWith \subseteq FirstWith \cup SecondMatchBinds \cup {"common_purchases"}
  /\ ThirdMatchNames \subseteq SecondWith \cup ThirdMatchBinds

\* LIMIT 10 of the second WITH
NeighbourLimit == 10

\* MATCH (user:User {id: $user_id})-[:PURCHASED]->(product:Product)
\* WITH user, COLLECT(product.id) as purchased_products
PurchasedProducts(t, user_id) == {r.product : r \in {x \in t.purchases : x.user = user_id}}

\* the second part: the other users by the purchases they have in common
NeighbourQuery(t, user_id) ==
  LET rows == {r \in t.purchases :
                 r.user # user_id /\ r.product \in PurchasedProducts(t, user_id)}
      groups == {[other_user |-> u,
                  common_purchases |-> Cardinality({r \in rows : r.user = u})] :
                   u \in {r.user : r \in rows}}
  IN Ascending(groups, LAMBDA g : 0 - g.common_purchases)

\* the third part over the neighbours kept: what they bought, by how often
StrengthQuery(t, user_id, neighbours) ==
  LET rows == {r \in t.purchases :
                 /\ r.user \in {neighbours[i].other_user : i \in 1 .. Len(neighbours)}
                 /\ r.product \notin PurchasedProducts(t, user_id)}
      groups == {[id |-> rec,
                  recommendation_strength |-> Cardinality({r \in rows : r.product = rec})] :
                   rec \in {r.product : r \in rows}}
  IN Ascending(groups, LAMBDA g : 0 - g.recommendation_strength)

\* the records the query returns when the graph store accepts it
PersonalizedQuery(t, user_id) ==
  UNION {StrengthQuery(t, user_id, Page(neighbours, NeighbourLimit, 0)) :
           neighbours \in NeighbourQuery(t, user_id)}

\* get_personalized_recommendations from the lookup to the return; session.run
\* raises on a query the graph store does not accept
get_personalized_recommendations(p, user_id, limit, fail) ==
  /\ Ready(p)
  /\ calls' = calls + 1
  /\ \E records \in PersonalizedQuery(tables, user_id) :
       LET cache_key == CacheKey("get_personalized_recommendations", 0, user_id, limit, 0)
           cached_result == get_json(cache, cache_key)
           page == IF Compiles THEN Page(records, limit, 0) ELSE <<>>
           recommendations == List(WithDetails(tables, page, Lost(page, fail)))
           a == [user_id |-> user_id, limit |-> limit, fail |-> fail]
           r == [ReqIdle EXCEPT !.pc = "done", !.op = "get_personalized_recommendations",
                                !.args = Some(a), !.cache_key = Some(cache_key),
                                !.user_id = Some(user_id),
                                !.computed = Some([page |-> page,
                                                   joined |-> recommendations.rows])]
       IN IF cached_result # None /\ Truthy(Val(cached_result))
          THEN /\ req' = [req EXCEPT ![p] =
                    [r EXCEPT !.result = cached_result, !.found = cached_result,
                              !.cache_hit = TRUE]]
               /\ UNCHANGED cache
          ELSE IF ~Compiles \/ fail \in {"query", "write"}
                  \/ ~Serializable(recommendations.rows)
          THEN /\ req' = [req EXCEPT ![p] =
                    [r EXCEPT !.result = Some(NoRows), !.queried = TRUE]]
               /\ UNCHANGED cache
          ELSE /\ req' = [req EXCEPT ![p] =
                    [r EXCEPT !.result = Some(recommendations), !.queried = TRUE,
                              !.wrote = TRUE]]
               /\ cache' = set_json(cache, cache_key, recommendations,
                                    CacheTtl("get_personalized_recommendations"))
  /\ UNCHANGED <<CartVars, tables, now, data, cache_hit_count, cache_miss_count, seed>>

\* the graphs: every choice of the relationships, over the full catalog or
\* the catalog that has lost a product the graph still holds
Graphs ==
  {[NoTables EXCEPT !.products = C, !.categories = {"home", "garden"},
                    !.purchases = S] :
     S \in SUBSET Purchases, C \in {Products, {row \in Products : row.id # "P3"}}}

InitGraph ==
  /\ CartQuiet
  /\ tables \in Graphs
  /\ now = 0
  /\ calls = 0
  /\ cache = EmptyStore
  /\ data = "v1"
  /\ cache_hit_count = [p \in Procs |-> 0]
  /\ cache_miss_count = [p \in Procs |-> 0]
  /\ seed = [p \in Procs |-> 1]
  /\ req = [p \in Procs |-> ReqIdle]

NextGraph ==
  \/ \E id \in GraphProducts, limit \in VectorLimits, fail \in GraphFailures :
       get_also_bought_recommendations(SeqProc, id, limit, fail)
  \/ \E id \in GraphProducts, limit \in VectorLimits, fail \in GraphFailures :
       get_frequently_bought_together(SeqProc, id, limit, fail)
  \/ \E u \in Users, limit \in VectorLimits, fail \in GraphFailures :
       get_personalized_recommendations(SeqProc, u, limit, fail)

SpecGraph == InitGraph /\ [][NextGraph]_vars

\* ------------------------------------------- claims on the recommendations
\* the users who bought both products
BoughtBoth(a, b) ==
  {u \in Users : /\ \E r \in tables.purchases : r.user = u /\ r.product = a
                 /\ \E r \in tables.purchases : r.user = u /\ r.product = b}

\* C29: on a miss, get_also_bought_recommendations(p, limit) and
\* get_frequently_bought_together(p, limit) return the products bought by a
\* user who also bought p, at most limit and never p, in descending order of
\* the number of users who bought both the product and p, however often they did.
C29_AlsoBought ==
  \A p \in Procs :
    /\ Computed(p, "get_also_bought_recommendations")
         \/ Computed(p, "get_frequently_bought_together")
    /\ Val(req[p].args).fail = "none"
    => LET target == Val(req[p].args).product_id
       IN /\ Len(Answer(p)) <= Val(req[p].args).limit
          /\ GraphProducts \subseteq {row.id : row \in tables.products} =>
               Len(Answer(p)) =
                 AtMost(Val(req[p].args).limit,
                        Cardinality({id \in GraphProducts \ {target} :
                                       BoughtBoth(id, target) # {}}))
          /\ \A i \in 1 .. Len(Answer(p)) :
               /\ Answer(p)[i].id # target
               /\ BoughtBoth(Answer(p)[i].id, target) # {}
               /\ Answer(p)[i].purchase_count = Cardinality(BoughtBoth(Answer(p)[i].id, target))
          /\ Descending(Answer(p), LAMBDA g : Cardinality(BoughtBoth(g.id, target)))
          /\ \A id \in GraphProducts \ (IdsOf(Answer(p)) \cup {target}) :
               \A i \in 1 .. Len(Answer(p)) :
                 Cardinality(BoughtBoth(id, target))
                   <= Cardinality(BoughtBoth(Answer(p)[i].id, target))

\* what the neighbours of a user bought that the user did not
Owned(u) == {r.product : r \in {x \in tables.purchases : x.user = u}}

NeighboursOf(u) == {v \in Users \ {u} : Owned(v) \cap Owned(u) # {}}

NewToUser(u) == UNION {Owned(v) : v \in NeighboursOf(u)} \ Owned(u)

\* C30: on a miss, for a user whose neighbours (the users who share a purchased
\* product) bought products the user has not, get_personalized_recommendations
\* returns those products, at most limit of them, in descending order of the
\* number of neighbours who bought each, and none the user has purchased.
C30_Personalized ==
  \A p \in Procs :
    /\ Computed(p, "get_personalized_recommendations")
    /\ Val(req[p].args).fail = "none"
    /\ NewToUser(Val(req[p].args).user_id) # {}
    => LET u == Val(req[p].args).user_id
       IN /\ Len(Answer(p)) = AtMost(Val(req[p].args).limit, Cardinality(NewToUser(u)))
          /\ IdsOf(Answer(p)) \subseteq NewToUser(u)
          /\ IdsOf(Answer(p)) \cap Owned(u) = {}
          /\ Descending(Answer(p),
               LAMBDA g : Cardinality({v \in NeighboursOf(u) : g.id \in Owned(v)}))


\* the recommendations that join the records of the graph with the relational store
Joining ==
  {"get_also_bought_recommendations", "get_frequently_bought_together",
   "get_personalized_recommendations"}

\* C31: when the graph query raises, or the lookup of the details of a
\* recommended product does, the recommendation returns the empty list, raises
\* nothing, and writes no list to the cache.
C31_RecommenderFailSoft ==
  \A p \in Procs :
    /\ \E op \in Joining : Computed(p, op)
    /\ \/ Val(req[p].args).fail = "query"
       \/ Val(req[p].args).fail = "join" /\ Candidates(p).page # <<>>
    => /\ req[p].result = Some(NoRows)
       /\ ~req[p].raised
       /\ ~req[p].wrote

\* C32: what a recommendation returns on a miss is the records of the graph
\* whose product the relational store holds, in the order of the graph, each
\* with the details the store holds now.
C32_LiveRejoin ==
  \A p \in Procs :
    /\ \E op \in Joining : Computed(p, op)
    /\ Val(req[p].args).fail = "none"
    => LET page == Candidates(p).page
           kept == SelectSeq(page, LAMBDA g : \E row \in tables.products : row.id = g.id)
       IN /\ Len(Answer(p)) = Len(kept)
          /\ \A i \in 1 .. Len(Answer(p)) :
               /\ Answer(p)[i].id = kept[i].id
               /\ Answer(p)[i].created_at.day = RowOf(kept[i].id).created_at


\* ------------------------------------------------ claims on the counters
\* a lexical call of p reads the cache in this step
LooksUp(p) ==
  /\ req[p].pc = "lookup"
  /\ req[p].op \in Lexical
  /\ req'[p].pc # "lookup"
  /\ ~req'[p].raised

Counters(p) == cache_hit_count[p] + cache_miss_count[p]

C33_LookupStep ==
  \A p \in Procs :
    LooksUp(p) =>
      /\ Counters(p)' = Counters(p) + 1
      /\ req'[p].found # None => cache_hit_count'[p] = cache_hit_count[p] + 1
      /\ req'[p].found = None => cache_miss_count'[p] = cache_miss_count[p] + 1

\* C33: every cache lookup of search_products, search_by_category and
\* get_product_suggestions adds exactly one to the counters of its service, to
\* the hits when a value was found and to the misses when none was, whatever
\* happens to the call afterwards.
C33_CounterAccounting == [][C33_LookupStep]_vars


\* ------------------------------------- calls that share a service instance
\* the two frames are here two threads of the process SeqProc, which call the
\* one ProductSearchService of the process; "self.cache_hit_count += 1" reads
\* the attribute, adds, and writes it back, and nothing keeps another thread
\* from running in between
\* the call up to the read of the counter: the key, the lookup, "if
\* cached_result", and the value of the counter it is about to add to
ReadCounter(q, op, subject, limit) ==
  /\ req[q].pc = "idle"
  /\ calls < MaxCalls
  /\ calls' = calls + 1
  /\ LET cache_key == CacheKey(op, seed[SeqProc], subject, limit, 0)
         cached_result == get_json(cache, cache_key)
         hit == cached_result # None /\ Truthy(Val(cached_result))
     IN req' = [req EXCEPT ![q] =
          [ReqIdle EXCEPT !.pc = "count", !.op = op, !.subject = subject, !.limit = limit,
                          !.cache_key = Some(cache_key), !.found = cached_result,
                          !.cache_hit = hit,
                          !.computed = Some(IF hit THEN cache_hit_count[SeqProc]
                                            ELSE cache_miss_count[SeqProc])]]
  /\ UNCHANGED <<CartVars, tables, now, cache, data, cache_hit_count, cache_miss_count, seed>>

\* the write of the counter and the rest of the call: the cached value on a
\* hit, the query and the write of the cache on a miss
WriteCounter(q) ==
  /\ req[q].pc = "count"
  /\ LET r == req[q]
         fresh == Compute(r.op, data)
     IN IF r.cache_hit
        THEN /\ cache_hit_count' = [cache_hit_count EXCEPT ![SeqProc] = Val(r.computed) + 1]
             /\ req' = [req EXCEPT ![q] = [Finish(r, Val(r.found)) EXCEPT !.counted = TRUE]]
             /\ UNCHANGED <<cache, cache_miss_count>>
        ELSE /\ cache_miss_count' = [cache_miss_count EXCEPT ![SeqProc] = Val(r.computed) + 1]
             /\ cache' = set_json(cache, Val(r.cache_key), fresh, CacheTtl(r.op))
             /\ req' = [req EXCEPT ![q] =
                  [Finish(r, fresh) EXCEPT !.counted = TRUE, !.queried = TRUE, !.wrote = TRUE]]
             /\ UNCHANGED cache_hit_count
  /\ UNCHANGED <<CartVars, tables, now, calls, data, seed>>

\* the cache holds nothing, or the answer to one of the searches
InitThreads ==
  /\ CartQuiet
  /\ tables = NoTables
  /\ now = 0
  /\ calls = 0
  /\ cache \in {EmptyStore,
                set_json(EmptyStore, CacheKey("search_products", 1, "mug", 5, 0),
                         Compute("search_products", "v1"), CacheTtl("search_products"))}
  /\ data = "v1"
  /\ cache_hit_count = [p \in Procs |-> 0]
  /\ cache_miss_count = [p \in Procs |-> 0]
  /\ seed = [p \in Procs |-> 1]
  /\ req = [p \in Procs |-> ReqIdle]

NextThreads ==
  \/ \E q \in Procs, op \in Counted, subject \in Subjects, limit \in Limits :
       ReadCounter(q, op, subject, limit)
  \/ \E q \in Procs : WriteCounter(q)

SpecThreads == InitThreads /\ [][NextThreads]_vars

\* C34: when the calls that run at the same time on one ProductSearchService
\* have all returned, cache_hit_count + cache_miss_count has grown by the
\* number of the calls: no increment is lost.
C34_NoLostIncrement ==
  (\A q \in Procs : req[q].pc = "done") =>
    Counters(SeqProc) = Cardinality(Procs)


\* C35: a result get_similar_products(p, limit) computed holds neither p
\* itself nor a product whose stock is 0.
C35_SimilarExclusions ==
  \A p \in Procs :
    Computed(p, "get_similar_products") =>
      /\ \A i \in 1 .. Len(Answer(p)) : Answer(p)[i].id # Val(req[p].args).product_id
      /\ \A i \in 1 .. Len(Answer(p)) : RowOf(Answer(p)[i].id).stock > 0


\* ------------------------------------------- the conversion and its cart row
\* a call of convert_cart_to_order that has removed the user's cart row
Converted(p) ==
  /\ local[p].op = "convert_cart_to_order"
  /\ effect[p].cart = "deleted"

\* C36: in every state, whatever store call failed and whichever handler died,
\* a conversion that has removed the cart row has committed before it: the
\* order is stored under the id the call returns, with one order item of the
\* line's quantity for every line of the cart the call read, and the call has
\* taken each line's quantity, and nothing else, from the stock.
C36_CommitBeforeDelete ==
  \A p \in Procs :
    Converted(p) =>
      LET items == Val(local[p].current_cart)
          oid == local[p].result.order_id
      IN /\ oid # None
         /\ [id |-> Val(oid), user_id |-> local[p].user_id] \in orders
         /\ \A pid \in Lines(items) :
              \E r \in order_items :
                /\ r.order_id = Val(oid)
                /\ r.product_id = pid
                /\ r.quantity = items[pid].quantity
         /\ \A pid \in ProductIds :
              effect[p].stock[pid] = IF pid \in Lines(items) THEN items[pid].quantity ELSE 0

\* a conversion removed a cart of two lines, and the other handler's
\* conversion of the same cart failed in its transaction
C36_Witness ==
  \E p \in Procs :
    /\ Converted(p)
    /\ Lines(Val(local[p].current_cart)) = ProductIds
    /\ \E q \in Procs \ {p} :
         /\ local[q].pc = "done"
         /\ local[q].op = "convert_cart_to_order"
         /\ local[q].user_id = local[p].user_id
         /\ local[q].result.err = "PostgresError"


\* ------------------------------------- the vector searches and the checkout
\* In this specification the products table is tables.products, which the
\* searches read and the order transaction updates.
\* the cart rows a checkout may find: one line, of a product that is in stock
StockCarts ==
  {[u \in {"u1"} |->
      [items |-> [pid \in {row.id} |->
                    [quantity |-> q, price |-> row.price, name |-> row.name]],
       ttl |-> cart_ttl]] :
     row \in {x \in Products : x.stock > 0}, q \in 1 .. MaxQty}

\* UPDATE products SET stock = stock - quantity, on the rows of the table
Sell(rows, items) ==
  {IF row.id \in Lines(items)
   THEN [row EXCEPT !.stock = @ - items[row.id].quantity]
   ELSE row : row \in rows}

\* the stock check of every cart line against the rows of the table
AllInStock(rows, items) ==
  \A pid \in Lines(items) :
    \E row \in rows : row.id = pid /\ items[pid].quantity <= row.stock

\* convert_cart_to_order from its read to its return, the stores answering
Checkout(p, u) ==
  /\ \A q \in Procs : req[q].pc \in {"idle", "done"}
  /\ local[p].pc \in {"idle", "done"}
  /\ LET l == Invoke(p, "convert_cart_to_order", u, "-", 0)
         read == get_json(carts, u)
         order_id == OrderId(u, now)
     IN IF read = None \/ Lines(Val(read)) = {}
        THEN /\ local' = [local EXCEPT ![p] = EmptyCartRefused(l)]
             /\ UNCHANGED <<orders, order_items, tables, carts>>
        ELSE IF ~AllInStock(tables.products, Val(read))
        THEN /\ local' = [local EXCEPT ![p] = Fail(l, "Insufficient stock for", "none")]
             /\ UNCHANGED <<orders, order_items, tables, carts>>
        ELSE IF ~PrimaryKeyFree(orders, order_id)
        THEN /\ local' = [local EXCEPT ![p] =
                  Fail(l, "Failed to create order", "UniqueViolation")]
             /\ UNCHANGED <<orders, order_items, tables, carts>>
        ELSE /\ orders' = orders \cup {[id |-> order_id, user_id |-> u]}
             /\ order_items' = order_items \cup OrderItemRows(order_id, Val(read))
             /\ tables' = [tables EXCEPT !.products = Sell(@, Val(read))]
             /\ carts' = redis_delete(carts, u)
             /\ local' = [local EXCEPT ![p] =
                  Succeed([l EXCEPT !.current_cart = read, !.order_id = Some(order_id)],
                          "Order created successfully")]
  /\ UNCHANGED <<stock, price, name, effect, made, now, calls>>
  /\ UNCHANGED <<cache, data, cache_hit_count, cache_miss_count, seed, req>>

InitCheckout ==
  /\ stock = [p \in ProductIds |-> InitStock]
  /\ price = OldPrice
  /\ name = OldName
  /\ orders = {}
  /\ order_items = {}
  /\ carts \in StockCarts
  /\ local = [p \in Procs |-> Idle]
  /\ effect = [p \in Procs |-> NoEffect]
  /\ made = [u \in Users |-> {}]
  /\ tables \in VectorCatalogs
  /\ now = 0
  /\ calls = 0
  /\ cache = EmptyStore
  /\ data = "v1"
  /\ cache_hit_count = [p \in Procs |-> 0]
  /\ cache_miss_count = [p \in Procs |-> 0]
  /\ seed = [p \in Procs |-> 1]
  /\ req = [p \in Procs |-> ReqIdle]

NextCheckout ==
  \/ \E query \in VectorQueries, limit \in VectorLimits :
       semantic_search(SeqProc, query, limit, "none")
  \/ \E id \in {row.id : row \in Products}, limit \in VectorLimits :
       more_like_this(SeqProc, id, limit, "none")
  \/ \E query \in VectorQueries, limit \in VectorLimits, w \in Weights :
       hybrid_search(SeqProc, query, limit, w, "none", "none")
  \/ \E u \in Users : Checkout(SeqProc, u)

SpecCheckout == InitCheckout /\ [][NextCheckout]_vars

\* the products a committed order has brought to a stock of 0
SoldOut ==
  {row.id : row \in {x \in tables.products :
                       x.stock = 0 /\ \E o \in order_items : o.product_id = x.id}}

VectorSearches == {"semantic_search", "more_like_this", "hybrid_search"}

C37_Returns(p) ==
  (/\ req'[p] # req[p]
   /\ req'[p].pc = "done"
   /\ req'[p].op \in VectorSearches)
    => \A i \in 1 .. Len(Val(req'[p].result).rows) :
         Val(req'[p].result).rows[i].id \notin SoldOut

\* C37: once a conversion has committed the decrement that brings a product's
\* stock to 0, no semantic_search, more_like_this or hybrid_search call that
\* returns afterwards has the product in its result, from the cache or not.
C37_SoldOutNotReturned == [][\A p \in Procs : C37_Returns(p)]_vars


\* ------------------------------------------------------- rate_limit_check
\* The counter keys live in the key-value store, here the variable cache: key
\* -> [items |-> the count, ttl |-> the seconds left, NoExpiry for a key that
\* has none].  A frame of req holds a caller's position, what it read, and as
\* history the times at which its calls returned True.
RATE_LIMIT_REQUESTS == 2
RATE_LIMIT_WINDOW == 2
MaxChecks == 4
MaxClock == 4
NoExpiry == 0 - 1

Endpoints == {"search"}

RateKey(user_id, endpoint) == [family |-> "rate_limit", user_id |-> user_id, endpoint |-> endpoint]

RateIdle ==
  [pc |-> "idle", op |-> "rate_limit_check", cache_key |-> None, count |-> None,
   result |-> None, began |-> 0, granted |-> <<>>, refused |-> <<>>]

\* client.get(key): the count, or None for a key that is not there
redis_get(store, key) == IF key \in DOMAIN store THEN Some(store[key].items) ELSE None

\* client.setex(key, ttl, value): the key gets the value and the expiry
redis_setex(store, key, ttl, value) ==
  [k \in DOMAIN store \cup {key} |->
     IF k = key THEN [items |-> value, ttl |-> ttl] ELSE store[k]]

\* client.incr(key): one more on the key with its expiry as it is; a key that
\* is not there is created as 1, and a key created this way has no expiry
redis_incr(store, key) ==
  [k \in DOMAIN store \cup {key} |->
     IF k # key THEN store[k]
     ELSE IF key \in DOMAIN store THEN [store[key] EXCEPT !.items = @ + 1]
     ELSE [items |-> 1, ttl |-> NoExpiry]]

\* d seconds pass in the key-value store
RateExpire(store, d) ==
  [k \in {x \in DOMAIN store : store[x].ttl = NoExpiry \/ store[x].ttl > d} |->
     IF store[k].ttl = NoExpiry THEN store[k] ELSE [store[k] EXCEPT !.ttl = @ - d]]

Granted(r, key) == [r EXCEPT !.pc = "done", !.result = Some(TRUE),
                             !.granted = Append(@, [key |-> key, at |-> now])]

Refused(r, key) == [r EXCEPT !.pc = "done", !.result = Some(FALSE),
                             !.refused = Append(@, [key |-> key, at |-> now])]

\* count = self.client.get(key), and the return of False, which needs no
\* second call of the store
rate_limit_check(p, user_id, endpoint) ==
  /\ req[p].pc \in {"idle", "done"}
  /\ calls < MaxChecks
  /\ calls' = calls + 1
  /\ LET key == RateKey(user_id, endpoint)
         count == redis_get(cache, key)
         r == [req[p] EXCEPT !.cache_key = Some(key), !.count = count, !.result = None,
                             !.began = now]
     IN req' = [req EXCEPT ![p] =
          IF count = None THEN [r EXCEPT !.pc = "setex"]
          ELSE IF Val(count) < RATE_LIMIT_REQUESTS THEN [r EXCEPT !.pc = "incr"]
          ELSE Refused(r, key)]
  /\ UNCHANGED <<CartVars, tables, now, cache, data, cache_hit_count, cache_miss_count, seed>>

\* self.client.setex(key, RATE_LIMIT_WINDOW, 1); return True
rate_limit_setex(p) ==
  /\ req[p].pc = "setex"
  /\ cache' = redis_setex(cache, Val(req[p].cache_key), RATE_LIMIT_WINDOW, 1)
  /\ req' = [req EXCEPT ![p] = Granted(req[p], Val(req[p].cache_key))]
  /\ UNCHANGED <<CartVars, tables, now, calls, data, cache_hit_count, cache_miss_count, seed>>

\* self.client.incr(key); return True
rate_limit_incr(p) ==
  /\ req[p].pc = "incr"
  /\ cache' = redis_incr(cache, Val(req[p].cache_key))
  /\ req' = [req EXCEPT ![p] = Granted(req[p], Val(req[p].cache_key))]
  /\ UNCHANGED <<CartVars, tables, now, calls, data, cache_hit_count, cache_miss_count, seed>>

\* a second passes, whatever the callers are doing
RateTick ==
  /\ now < MaxClock
  /\ now' = now + 1
  /\ cache' = RateExpire(cache, 1)
  /\ UNCHANGED <<CartVars, tables, calls, data, cache_hit_count, cache_miss_count, seed, req>>

InitRate ==
  /\ CartQuiet
  /\ tables = NoTables
  /\ now = 0
  /\ calls = 0
  /\ cache = EmptyStore
  /\ data = "v1"
  /\ cache_hit_count = [p \in Procs |-> 0]
  /\ cache_miss_count = [p \in Procs |-> 0]
  /\ seed = [p \in Procs |-> 1]
  /\ req = [p \in Procs |-> RateIdle]

NextRate ==
  \/ \E p \in Procs, user_id \in Users, endpoint \in Endpoints :
       rate_limit_check(p, user_id, endpoint)
  \/ \E p \in Procs : rate_limit_setex(p)
  \/ \E p \in Procs : rate_limit_incr(p)
  \/ RateTick

SpecRate == InitRate /\ [][NextRate]_vars

\* the number of True returns for the key at or after time t
GrantsSince(key, t) ==
  LET Of(p) == {i \in DOMAIN req[p].granted :
                  req[p].granted[i].key = key /\ req[p].granted[i].at >= t}
      pick == CHOOSE p \in Procs : TRUE
  IN Cardinality(Of(pick)) + Cardinality(Of(CHOOSE p \in Procs \ {pick} : TRUE))

\* C38: in the window a counter key is open for, which began
\* RATE_LIMIT_WINDOW before the key's expiry, rate_limit_check has returned
\* True for the key's (user, endpoint) pair at most RATE_LIMIT_REQUESTS times,
\* however the callers interleave.
C38_RateLimitBound ==
  \A key \in DOMAIN cache :
    cache[key].ttl # NoExpiry =>
      GrantsSince(key, now + cache[key].ttl - RATE_LIMIT_WINDOW) <= RATE_LIMIT_REQUESTS


\* every counter key in the store has an expiry
KeysCarryExpiry == \A key \in DOMAIN cache : cache[key].ttl # NoExpiry

\* the last True for the key lies a whole window back, or there was none
WindowOver(key) == GrantsSince(key, now - RATE_LIMIT_WINDOW + 1) = 0

\* a call that starts when the window is over is not refused
C39_Recovers(p) ==
  (/\ req[p].pc \in {"idle", "done"}
   /\ req'[p].pc = "done"
   /\ req'[p].result = Some(FALSE)
   /\ req'[p].refused # req[p].refused)
    => ~WindowOver(Val(req'[p].cache_key))

\* C39: a counter key always has an expiry, and a call for a (user, endpoint)
\* pair that is made when RATE_LIMIT_WINDOW has passed since the pair's last
\* True returns True: no interleaving of calls and expiries leaves the pair
\* refused for good.
C39_RateLimitRecovery == [](KeysCarryExpiry) /\ [][\A p \in Procs : C39_Recovers(p)]_vars

====
